---- MODULE Spec2Model ----
\* Windows Update Agent integration layer (packages/wua_windows.go):
\* the process-wide session lock, NewUpdateSession / Close, WUAUpdates with
\* its extraction of packages, and InstallWUAUpdate.
\* Also attributes.PostAttribute and the Linux agent's obtainLock, each with
\* its own variables and its own specification.
EXTENDS Integers, Sequences, FiniteSets, TLC

\* ---------------------------------------------------------------- bounds
\* goroutines that use the update agent concurrently
NumProcs == 2
\* largest Count the platform reports for a search result (one goroutine)
MaxUpdates == 3
\* largest Count of a KBArticleIDs / Categories / MoreInfoURLs sub-collection
MaxSub == 2
\* the same two bounds when several goroutines run
ConcUpdates == 1
ConcSub == 0
\* agent processes started on one host
NumAgents == 2

Procs == 1..NumProcs
Agents == 1..NumAgents
\* an inode for the lock file of each process, and one more
Inodes == 1..(NumAgents + 1)

VARIABLES
    wuaSession,  \* the global sync.Mutex: 0 = unlocked, p = locked by goroutine p
    misuse,      \* "none", or how the mutex was last misused by an Unlock
    pc,          \* pc[p]: the statement goroutine p is about to execute
    op,          \* op[p]: the top-level operation p is running
    sDisp,       \* sDisp[p]: s.IDispatch of p's IUpdateSession is non-nil
    trace,       \* trace[p]: platform calls, handle acquisitions and releases of the running call
    ret,         \* ret[p]: the values the running call returns, from its return statement on
    countRaw,    \* countRaw[p]: the VARIANT that updts.Count() read from the Count property
    updtCnt,     \* updtCnt[p]: WUAUpdates' local updtCnt
    i,           \* i[p]: WUAUpdates' loop index
    packages,    \* packages[p]: WUAUpdates' local packages slice
    eula,        \* eula[p]: eula.Val read by InstallWUAUpdate
    cause,       \* cause[p]: the error of the platform call that failed in p's call
    scodeStr,    \* scodeStr[p]: what GetScodeString returned for it
    clog,        \* clog[p]: the lines p's call has logged with clog.Errorf
    found        \* found[p]: the Counts the updates found by p's search report for their sub-collections

\* what a call keeps of the error it met
diag == <<cause, scodeStr, clog>>

\* attributes.PostAttribute (one caller; the function shares no state)
VARIABLES
    postPc,      \* the statement PostAttribute is about to execute
    args,        \* its arguments url and value
    req,         \* its local req
    resp,        \* its local resp, with what reading and closing resp.Body did
    postErr,     \* the error it returns
    wire         \* the requests http.DefaultClient has put on the wire for it

post == <<postPc, args, req, resp, postErr, wire>>

\* obtainLock at the start-up of the agent's processes on one Linux host
VARIABLES
    main,          \* main[a]: where the main goroutine of process a is
    flocker,       \* flocker[a]: the goroutine that calls syscall.Flock and sends on c
    fOpen,         \* fOpen[a]: the inode of the file f that a has open, 0 if none
    deferredFuncs, \* deferredFuncs[a]: the cleanups a has registered
    lockDir,       \* the directory /run/lock exists
    lockFile,      \* the inode at /run/lock/osconfig_agent.lock, 0 if there is no such file
    flock          \* flock[n]: the process whose open file holds the exclusive lock on inode n, 0 if none

startup == <<main, flocker, fOpen, deferredFuncs, lockDir, lockFile, flock>>

\* the state outside the update agent
host == <<post, startup>>

vars == <<wuaSession, misuse, pc, op, sDisp, trace, ret, cause, scodeStr, clog, countRaw, updtCnt, i, packages, eula, found,
          host>>

\* ----------------------------------------------------------- values
\* the nil error
Nil == ""

\* trace events: a platform call, the acquisition of a handle, its release
EvCall(n, a, b) == <<"call", n, a, b>>
EvAcq(h, a, b) == <<"acq", h, a, b>>
EvRel(h, a, b) == <<"rel", h, a, b>>
EvFail(n, a, b) == <<"fail", n, a, b>>

\* the calls of ev, of which the last one failed
Failing(ev) == ev \o <<EvFail(ev[Len(ev)][2], ev[Len(ev)][3], ev[Len(ev)][4])>>

\* a VARIANT as go-ole's Value() sees it: its type tag and its number
Variant(vt, val) == [vt |-> vt, val |-> val]

\* the zero VARIANT
NoVariant == Variant("VT_EMPTY", 0)

\* what a successful read of a Count property can hold, up to n
CountVariants(n) ==
    {Variant("VT_I4", v) : v \in (-1)..n} \cup {Variant("VT_BSTR", 0)}

NoFail == <<"none", -1>>

\* the automation calls of extractPkg that can fail, by name and loop index
FailPoints(n) ==
    {<<f, -1>> : f \in {"Item", "Title", "Description", "KBArticleIDs", "kbArticleIDs.Count",
                        "Categories", "cat.Count", "MoreInfoURLs", "moreInfoURLs.Count",
                        "SupportURL", "LastDeploymentChangeTime", "GetVariantDate",
                        "Identity", "RevisionNumber", "UpdateID"}}
    \cup {<<f, j>> : f \in {"kbArticleIDs.Item", "cat.Item", "Name", "CategoryID",
                             "moreInfoURLs.Item"}, j \in 0..(n - 1)}

\* what the updates of one search result report as the Count of their
\* KBArticleIDs, Categories and MoreInfoURLs
Found(n) == [kb : CountVariants(n), cat : CountVariants(n), url : CountVariants(n)]

NoneFound == [kb |-> Variant("VT_I4", 0), cat |-> Variant("VT_I4", 0), url |-> Variant("VT_I4", 0)]

\* what the platform answers while one update is extracted: the Counts and the
\* call that fails, if any
Response(f, fail) == [kb |-> f.kb, cat |-> f.cat, url |-> f.url, fail |-> fail]

\* ----------------------------------------------------------- GetCount
\* count, _ := countRaw.Value().(int32): a value of another type counts as 0
GetCount(raw) == IF raw.vt = "VT_I4" THEN raw.val ELSE 0

\* ------------------------------------------------------------- kbaIDs
RECURSIVE kbaLoop(_, _, _, _, _)
kbaLoop(u, item, count, k, ss) ==
    IF k >= count THEN [ss |-> ss, err |-> Nil, ev |-> <<>>]
    ELSE IF u.fail = <<"kbArticleIDs.Item", k>>
    THEN [ss |-> <<>>, err |-> "kbArticleIDs.GetProperty(Item)",
          ev |-> Failing(<<EvCall("kbArticleIDs.Item", item, k)>>)]
    ELSE LET rest == kbaLoop(u, item, count, k + 1, Append(ss, <<"KB", item, k>>))
         IN  [rest EXCEPT !.ev = <<EvCall("kbArticleIDs.Item", item, k)>> \o @]

kbaIDs(u, item) ==
    IF u.fail = <<"KBArticleIDs", -1>>
    THEN [ss |-> <<>>, err |-> "IUpdate.GetProperty(KBArticleIDs)",
          ev |-> Failing(<<EvCall("KBArticleIDs", item, -1)>>)]
    ELSE LET open == <<EvCall("KBArticleIDs", item, -1), EvAcq("kbArticleIDs", item, -1),
                       EvCall("kbArticleIDs.Count", item, -1)>>
             close == <<EvRel("kbArticleIDs", item, -1)>>
             count == GetCount(u.kb)
         IN  IF u.fail = <<"kbArticleIDs.Count", -1>>
             THEN [ss |-> <<>>, err |-> "IDispatch.GetProperty(Count)", ev |-> Failing(open) \o close]
             ELSE IF count = 0
             THEN [ss |-> <<>>, err |-> Nil, ev |-> open \o close]
             ELSE LET r == kbaLoop(u, item, count, 0, <<>>)
                  IN  [r EXCEPT !.ev = open \o @ \o close]

\* --------------------------------------------------------- categories
RECURSIVE catReleases(_, _)
catReleases(item, n) ==
    \* the deferred item.Release() calls run last-registered first
    IF n = 0 THEN <<>> ELSE <<EvRel("cat.item", item, n - 1)>> \o catReleases(item, n - 1)

\* (mutant) the loop of categories returning what it has read so far when
\* CategoryID cannot be read
RECURSIVE catLoopKeepsName(_, _, _, _, _, _)
catLoopKeepsName(u, item, count, k, cns, cids) ==
    IF k >= count THEN [cns |-> cns, cids |-> cids, err |-> Nil, ev |-> <<>>, held |-> k]
    ELSE IF u.fail = <<"cat.Item", k>>
    THEN [cns |-> <<>>, cids |-> <<>>, err |-> "cat.GetProperty(Item)",
          ev |-> Failing(<<EvCall("cat.Item", item, k)>>), held |-> k]
    ELSE LET got == <<EvCall("cat.Item", item, k), EvAcq("cat.item", item, k)>>
         IN  IF u.fail = <<"Name", k>>
             THEN [cns |-> <<>>, cids |-> <<>>, err |-> "item.GetProperty(Name)",
                   ev |-> Failing(got \o <<EvCall("Name", item, k)>>), held |-> k + 1]
             ELSE IF u.fail = <<"CategoryID", k>>
             THEN [cns |-> Append(cns, <<"Name", item, k>>), cids |-> cids,
                   err |-> "item.GetProperty(CategoryID)",
                   ev |-> Failing(got \o <<EvCall("Name", item, k),
                                           EvCall("CategoryID", item, k)>>),
                   held |-> k + 1]
             ELSE LET rest == catLoopKeepsName(u, item, count, k + 1,
                                      Append(cns, <<"Name", item, k>>),
                                      Append(cids, <<"CategoryID", item, k>>))
                  IN  [rest EXCEPT !.ev = got \o <<EvCall("Name", item, k),
                                                   EvCall("CategoryID", item, k)>> \o @]

RECURSIVE catLoop(_, _, _, _, _, _)
catLoop(u, item, count, k, cns, cids) ==
    IF k >= count THEN [cns |-> cns, cids |-> cids, err |-> Nil, ev |-> <<>>, held |-> k]
    ELSE IF u.fail = <<"cat.Item", k>>
    THEN [cns |-> <<>>, cids |-> <<>>, err |-> "cat.GetProperty(Item)",
          ev |-> Failing(<<EvCall("cat.Item", item, k)>>), held |-> k]
    ELSE LET got == <<EvCall("cat.Item", item, k), EvAcq("cat.item", item, k)>>
         IN  IF u.fail = <<"Name", k>>
             THEN [cns |-> <<>>, cids |-> <<>>, err |-> "item.GetProperty(Name)",
                   ev |-> Failing(got \o <<EvCall("Name", item, k)>>), held |-> k + 1]
             ELSE IF u.fail = <<"CategoryID", k>>
             THEN [cns |-> <<>>, cids |-> <<>>, err |-> "item.GetProperty(CategoryID)",
                   ev |-> Failing(got \o <<EvCall("Name", item, k),
                                           EvCall("CategoryID", item, k)>>),
                   held |-> k + 1]
             ELSE LET rest == catLoop(u, item, count, k + 1,
                                      Append(cns, <<"Name", item, k>>),
                                      Append(cids, <<"CategoryID", item, k>>))
                  IN  [rest EXCEPT !.ev = got \o <<EvCall("Name", item, k),
                                                   EvCall("CategoryID", item, k)>> \o @]

categories(u, item) ==
    IF u.fail = <<"Categories", -1>>
    THEN [cns |-> <<>>, cids |-> <<>>, err |-> "IUpdate.GetProperty(Categories)",
          ev |-> Failing(<<EvCall("Categories", item, -1)>>)]
    ELSE LET open == <<EvCall("Categories", item, -1), EvAcq("cat", item, -1),
                       EvCall("cat.Count", item, -1)>>
             close == <<EvRel("cat", item, -1)>>
             count == GetCount(u.cat)
         IN  IF u.fail = <<"cat.Count", -1>>
             THEN [cns |-> <<>>, cids |-> <<>>, err |-> "IDispatch.GetProperty(Count)",
                   ev |-> Failing(open) \o close]
             ELSE IF count = 0
             THEN [cns |-> <<>>, cids |-> <<>>, err |-> Nil, ev |-> open \o close]
             ELSE LET r == catLoop(u, item, count, 0, <<>>, <<>>)
                  IN  [cns |-> r.cns, cids |-> r.cids, err |-> r.err,
                       ev |-> open \o r.ev \o catReleases(item, r.held) \o close]

\* ------------------------------------------------------- moreInfoURLs
RECURSIVE urlLoop(_, _, _, _, _)
urlLoop(u, item, count, k, ss) ==
    IF k >= count THEN [ss |-> ss, err |-> Nil, ev |-> <<>>]
    ELSE IF u.fail = <<"moreInfoURLs.Item", k>>
    THEN [ss |-> <<>>, err |-> "moreInfoURLs.GetProperty(Item)",
          ev |-> Failing(<<EvCall("moreInfoURLs.Item", item, k)>>)]
    ELSE LET rest == urlLoop(u, item, count, k + 1, Append(ss, <<"URL", item, k>>))
         IN  [rest EXCEPT !.ev = <<EvCall("moreInfoURLs.Item", item, k)>> \o @]

moreInfoURLs(u, item) ==
    IF u.fail = <<"MoreInfoURLs", -1>>
    THEN [ss |-> <<>>, err |-> "IUpdate.GetProperty(MoreInfoURLs)",
          ev |-> Failing(<<EvCall("MoreInfoURLs", item, -1)>>)]
    ELSE LET open == <<EvCall("MoreInfoURLs", item, -1), EvAcq("moreInfoURLs", item, -1),
                       EvCall("moreInfoURLs.Count", item, -1)>>
             close == <<EvRel("moreInfoURLs", item, -1)>>
             count == GetCount(u.url)
         IN  IF u.fail = <<"moreInfoURLs.Count", -1>>
             THEN [ss |-> <<>>, err |-> "IDispatch.GetProperty(Count)", ev |-> Failing(open) \o close]
             ELSE IF count = 0
             THEN [ss |-> <<>>, err |-> Nil, ev |-> open \o close]
             ELSE LET r == urlLoop(u, item, count, 0, <<>>)
                  IN  [r EXCEPT !.ev = open \o @ \o close]

\* --------------------------------------------------------- extractPkg
NoPkg == [item |-> -1]

WUAPackage(item, kb, cat, url) ==
    [item |-> item,
     Title |-> <<"Title", item>>,
     Description |-> <<"Description", item>>,
     SupportURL |-> <<"SupportURL", item>>,
     KBArticleIDs |-> kb.ss,
     UpdateID |-> <<"UpdateID", item>>,
     Categories |-> cat.cns,
     CategoryIDs |-> cat.cids,
     MoreInfoURLs |-> url.ss,
     RevisionNumber |-> <<"RevisionNumber", item>>,
     LastDeploymentChangeTime |-> <<"LastDeploymentChangeTime", item>>]

\* return nil, err
Failed(err, ev) == [pkg |-> NoPkg, err |-> err, ev |-> ev]

\* the body of extractPkg after c.Item succeeded (the deferred updt.Release()
\* is added by extractPkg)
extractProps(u, item) ==
    LET e1 == <<EvCall("Title", item, -1)>>
        e2 == e1 \o <<EvCall("Description", item, -1)>>
        kb == kbaIDs(u, item)
        e3 == e2 \o kb.ev
        cat == categories(u, item)
        e4 == e3 \o cat.ev
        url == moreInfoURLs(u, item)
        e5 == e4 \o url.ev
        e6 == e5 \o <<EvCall("SupportURL", item, -1)>>
        e7 == e6 \o <<EvCall("LastDeploymentChangeTime", item, -1)>>
        e8 == e7 \o <<EvCall("GetVariantDate", item, -1)>>
        e9 == e8 \o <<EvCall("Identity", item, -1)>>
        e10 == e9 \o <<EvAcq("identity", item, -1), EvCall("RevisionNumber", item, -1)>>
        e11 == e10 \o <<EvCall("UpdateID", item, -1)>>
        drop == <<EvRel("identity", item, -1)>>
    IN  IF u.fail = <<"Title", -1>> THEN Failed("updt.GetProperty(Title)", Failing(e1))
        ELSE IF u.fail = <<"Description", -1>> THEN Failed("updt.GetProperty(Description)", Failing(e2))
        ELSE IF kb.err # Nil THEN Failed(kb.err, e3)
        ELSE IF cat.err # Nil THEN Failed(cat.err, e4)
        ELSE IF url.err # Nil THEN Failed(url.err, e5)
        ELSE IF u.fail = <<"SupportURL", -1>> THEN Failed("updt.GetProperty(SupportURL)", Failing(e6))
        ELSE IF u.fail = <<"LastDeploymentChangeTime", -1>>
        THEN Failed("updt.GetProperty(LastDeploymentChangeTime)", Failing(e7))
        ELSE IF u.fail = <<"GetVariantDate", -1>> THEN Failed("ole.GetVariantDate", Failing(e8))
        ELSE IF u.fail = <<"Identity", -1>> THEN Failed("updt.GetProperty(Identity)", Failing(e9))
        ELSE IF u.fail = <<"RevisionNumber", -1>>
        THEN Failed("identity.GetProperty(RevisionNumber)", Failing(e10) \o drop)
        ELSE IF u.fail = <<"UpdateID", -1>>
        THEN Failed("identity.GetProperty(UpdateID)", Failing(e11) \o drop)
        ELSE [pkg |-> WUAPackage(item, kb, cat, url), err |-> Nil, ev |-> e11 \o drop]

\* (mutant) extractPkg releasing the update only when it made a package of it
extractPkgKeepsFailed(u, item) ==
    IF u.fail = <<"Item", -1>>
    THEN Failed("IUpdateCollection.GetProperty(Item)", Failing(<<EvCall("Item", item, -1)>>))
    ELSE LET r == extractProps(u, item)
         IN  [r EXCEPT !.ev = <<EvCall("Item", item, -1), EvAcq("updt", item, -1)>> \o @
                               \o (IF r.err = Nil THEN <<EvRel("updt", item, -1)>> ELSE <<>>)]

extractPkg(u, item) ==
    IF u.fail = <<"Item", -1>>
    THEN Failed("IUpdateCollection.GetProperty(Item)", Failing(<<EvCall("Item", item, -1)>>))
    ELSE LET r == extractProps(u, item)
         IN  [r EXCEPT !.ev = <<EvCall("Item", item, -1), EvAcq("updt", item, -1)>>
                               \o @ \o <<EvRel("updt", item, -1)>>]

\* ------------------------------------------------ GetWUAUpdateCollection
SearchFails == {"CreateUpdateSearcher", "Search", "Updates"}

GetWUAUpdateCollection(fail) ==
    LET e1 == <<EvCall("CreateUpdateSearcher", -1, -1)>>
        e2 == e1 \o <<EvAcq("searcher", -1, -1), EvCall("Search", -1, -1)>>
        e3 == e2 \o <<EvAcq("result", -1, -1), EvCall("Updates", -1, -1)>>
    IN  IF fail = "CreateUpdateSearcher"
        THEN [err |-> "error calling CreateUpdateSearcher", ev |-> Failing(e1)]
        ELSE IF fail = "Search"
        THEN [err |-> "error calling method Search on IUpdateSearcher",
              ev |-> Failing(e2) \o <<EvRel("searcher", -1, -1)>>]
        ELSE IF fail = "Updates"
        THEN [err |-> "error calling GetProperty Updates on ISearchResult",
              ev |-> Failing(e3) \o <<EvRel("result", -1, -1), EvRel("searcher", -1, -1)>>]
        ELSE [err |-> Nil,
              ev |-> e3 \o <<EvAcq("updts", -1, -1), EvRel("result", -1, -1),
                             EvRel("searcher", -1, -1)>>]

\* ------------------------------------------------------ GetScodeString
\* an error value by its dynamic type: the nil interface, a plain Go error, a
\* *ole.OleError whose SubError() is no EXCEPINFO, one whose SubError() is an
\* EXCEPINFO with the given SCODE, and a nil *ole.OleError in the interface
Err(kind, scode) == [kind |-> kind, scode |-> scode]
\* a uint32 SCODE as its high and low 16 bits
Scode(hi, lo) == [hi |-> hi, lo |-> lo]

NoErr == Err("nil", Scode(0, 0))
PlainErr == Err("error", Scode(0, 0))
OleError == Err("*OleError", Scode(0, 0))
OleExcepInfo(scode) == Err("*OleError+EXCEPINFO", scode)
NilOleError == Err("nil *OleError", Scode(0, 0))

\* the SCODE values tried: 0, 1, 0xff, 0x10000, 0x80004005 (E_FAIL),
\* 0x80240022 (WU_E_ALL_UPDATES_FAILED), and the one the failing calls report
Scodes == {Scode(0, 0), Scode(0, 1), Scode(0, 255), Scode(1, 0),
           Scode(32768, 16389), Scode(32804, 34)}
CallScode == Scode(32804, 34)

\* the errors GetScodeString can be called with
ErrShapes == {NoErr, PlainErr, OleError, NilOleError} \cup {OleExcepInfo(c) : c \in Scodes}

\* %x: the hexadecimal digits of n, most significant first, without padding
RECURSIVE Hex(_)
Hex(n) == IF n < 16 THEN <<n>> ELSE Append(Hex(n \div 16), n % 16)

\* %x of a uint32: the digits of the high half, if it is not 0, then all four
\* digits of the low half
Hex32(c) ==
    IF c.hi = 0 THEN Hex(c.lo)
    ELSE LET d == Hex(c.lo)
         IN  Hex(c.hi) \o [k \in 1..4 |-> IF k <= 4 - Len(d) THEN 0 ELSE d[k - (4 - Len(d))]]

\* a string GetScodeString returns: a literal and the digits printed after it
EmptyStr == [text |-> "", digits |-> <<>>]
NoScode == [str |-> EmptyStr, logged |-> <<>>, panics |-> FALSE]

\* err.(*ole.OleError): the assertion holds for a nil pointer of that type too
IsOleError(err) == err.kind \in {"*OleError", "*OleError+EXCEPINFO", "nil *OleError"}

\* (mutant) GetScodeString taking every *ole.OleError as one with an EXCEPINFO
GetScodeStringAnyOleError(err) ==
    IF ~IsOleError(err) THEN NoScode
    ELSE IF err.kind = "nil *OleError"
    THEN [str |-> EmptyStr, logged |-> <<>>, panics |-> TRUE]
    ELSE [str |-> [text |-> " SCODE: 0x", digits |-> Hex32(err.scode)],
          logged |-> <<[text |-> "Error with SCODE was founded. SCODE : 0x",
                        digits |-> Hex32(err.scode)]>>,
          panics |-> FALSE]

GetScodeString(err) ==
    IF ~IsOleError(err) THEN NoScode
    ELSE IF err.kind = "nil *OleError"
    THEN \* oleError.SubError() reads a field through the nil pointer
         [str |-> EmptyStr, logged |-> <<>>, panics |-> TRUE]
    ELSE IF err.kind = "*OleError+EXCEPINFO"
    THEN [str |-> [text |-> " SCODE: 0x", digits |-> Hex32(err.scode)],
          logged |-> <<[text |-> "Error with SCODE was founded. SCODE : 0x",
                        digits |-> Hex32(err.scode)]>>,
          panics |-> FALSE]
    ELSE NoScode

\* the returns whose message is formatted with GetScodeString(ctx, err)
ScodeSites ==
    {"error calling CreateUpdateSearcher",
     "error calling method Search on IUpdateSearcher",
     "error calling GetProperty Updates on ISearchResult",
     "DownloadWUAUpdateCollection error: CreateUpdateDownloader",
     "DownloadWUAUpdateCollection error: PutProperty Updates",
     "DownloadWUAUpdateCollection error: Download",
     "InstallWUAUpdateCollection error: CreateUpdateInstaller",
     "InstallWUAUpdateCollection error: PutProperty Updates",
     "InstallWUAUpdateCollection error: Install"}

\* the errors a failed call can return: ole.GetVariantDate a plain error, the
\* automation calls an *ole.OleError with or without an EXCEPINFO
Causes(err) ==
    IF err = "ole.GetVariantDate" THEN {PlainErr} ELSE {OleError, OleExcepInfo(CallScode)}

\* ------------------------------------------------------------ helpers
Goto(p, l) == pc' = [pc EXCEPT ![p] = l]
Log(p, ev) == trace' = [trace EXCEPT ![p] = @ \o ev]

\* the call of p returns pkgs and err; when err is the error of a failed
\* platform call, that call's error is any of those it can return, and the
\* call sites that format their message with GetScodeString have called it
Return(p, pkgs, err) ==
    /\ ret' = [ret EXCEPT ![p] = [pkgs |-> pkgs, err |-> err]]
    /\ IF err = Nil
       THEN UNCHANGED diag
       ELSE \E e \in Causes(err) :
                LET g == IF err \in ScodeSites THEN GetScodeString(e) ELSE NoScode
                IN  /\ cause' = [cause EXCEPT ![p] = e]
                    /\ scodeStr' = [scodeStr EXCEPT ![p] = g.str]
                    /\ clog' = [clog EXCEPT ![p] = @ \o g.logged]

\* the deferred updts.Release() of WUAUpdates: the collection of the search, and
\* what its updates report, is gone
Released(p) == found' = [found EXCEPT ![p] = NoneFound]

NoRet == [pkgs |-> <<>>, err |-> Nil]

Init ==
    /\ wuaSession = 0
    /\ misuse = "none"
    /\ pc = [p \in Procs |-> "idle"]
    /\ op = [p \in Procs |-> "none"]
    /\ sDisp = [p \in Procs |-> FALSE]
    /\ trace = [p \in Procs |-> <<>>]
    /\ ret = [p \in Procs |-> NoRet]
    /\ cause = [p \in Procs |-> NoErr]
    /\ scodeStr = [p \in Procs |-> EmptyStr]
    /\ clog = [p \in Procs |-> <<>>]
    /\ countRaw = [p \in Procs |-> NoVariant]
    /\ updtCnt = [p \in Procs |-> 0]
    /\ i = [p \in Procs |-> 0]
    /\ packages = [p \in Procs |-> <<>>]
    /\ eula = [p \in Procs |-> 0]
    /\ found = [p \in Procs |-> NoneFound]
    /\ postPc = "idle"
    /\ args = [url |-> "", value |-> ""]
    /\ req = [built |-> FALSE, method |-> "", url |-> "", body |-> "", header |-> <<>>]
    /\ resp = [received |-> FALSE, StatusCode |-> 0, body |-> "", readable |-> FALSE, closed |-> FALSE]
    /\ postErr = [kind |-> "nil", status |-> 0, method |-> "", url |-> "", hasBody |-> FALSE, body |-> ""]
    /\ wire = <<>>
    /\ main = [a \in Agents |-> "off"]
    /\ flocker = [a \in Agents |-> "none"]
    /\ fOpen = [a \in Agents |-> 0]
    /\ deferredFuncs = [a \in Agents |-> <<>>]
    /\ lockDir = FALSE
    /\ lockFile = 0
    /\ flock = [n \in Inodes |-> 0]

\* the call of p has returned: its session, locals and results are gone
Returned(p) ==
    /\ op' = [op EXCEPT ![p] = "none"]
    /\ sDisp' = [sDisp EXCEPT ![p] = FALSE]
    /\ trace' = [trace EXCEPT ![p] = <<>>]
    /\ ret' = [ret EXCEPT ![p] = NoRet]
    /\ cause' = [cause EXCEPT ![p] = NoErr]
    /\ scodeStr' = [scodeStr EXCEPT ![p] = EmptyStr]
    /\ clog' = [clog EXCEPT ![p] = <<>>]
    /\ countRaw' = [countRaw EXCEPT ![p] = NoVariant]
    /\ updtCnt' = [updtCnt EXCEPT ![p] = 0]
    /\ i' = [i EXCEPT ![p] = 0]
    /\ packages' = [packages EXCEPT ![p] = <<>>]
    /\ eula' = [eula EXCEPT ![p] = 0]
    /\ found' = [found EXCEPT ![p] = NoneFound]

\* ---------------------------------------------------------- sync.Mutex
\* (mutant) a lock that never makes its caller wait
MutexNeverBlocks == TRUE

\* wuaSession.Lock() returns only once the mutex is unlocked
MutexFree == wuaSession = 0

\* wuaSession.Unlock() by p, which then goes on at l: the mutex is unlocked
\* whoever held it; unlocking an unlocked mutex is a fatal runtime error, which
\* ends the process and every goroutine with it
MutexUnlock(p, l) ==
    /\ wuaSession' = 0
    /\ misuse' = IF wuaSession = 0 THEN "unlocked"
                 ELSE IF wuaSession # p THEN "foreign" ELSE misuse
    /\ UNCHANGED host
    /\ pc' = IF wuaSession = 0 THEN [q \in Procs |-> "fatal"] ELSE [pc EXCEPT ![p] = l]

\* ---------------------------------------------------- NewUpdateSession
\* a goroutine calls WUAUpdates, whose first statement is NewUpdateSession()
CallWUAUpdates(p) ==
    /\ pc[p] = "idle"
    /\ op' = [op EXCEPT ![p] = "WUAUpdates"]
    /\ Goto(p, "Lock")
    /\ UNCHANGED <<wuaSession, misuse, host, sDisp, trace, ret, diag, countRaw, updtCnt, i, packages, eula, found>>

\* wuaSession.Lock()
Lock(p) ==
    /\ pc[p] = "Lock"
    /\ MutexFree
    /\ wuaSession' = p
    /\ Log(p, <<EvAcq("wuaSession", -1, -1)>>)
    /\ Goto(p, "coInitializeEx")
    /\ UNCHANGED <<misuse, host, op, sDisp, ret, diag, countRaw, updtCnt, i, packages, eula, found>>

\* if err := coInitializeEx(); err != nil { ... }; s := &IUpdateSession{}
CoInitializeEx(p) ==
    /\ pc[p] = "coInitializeEx"
    /\ \E ok \in BOOLEAN :
        IF ok
        THEN /\ Log(p, <<EvCall("coInitializeEx", -1, -1), EvAcq("COM", -1, -1)>>)
             /\ Goto(p, "CreateObject")
             /\ UNCHANGED <<ret, diag>>
        ELSE /\ Log(p, Failing(<<EvCall("coInitializeEx", -1, -1)>>))
             /\ Return(p, <<>>, "coInitializeEx")
             /\ Goto(p, "initFailed")
    /\ sDisp' = [sDisp EXCEPT ![p] = FALSE]
    /\ UNCHANGED <<wuaSession, misuse, host, op, countRaw, updtCnt, i, packages, eula, found>>

\* (mutant) return nil, err without wuaSession.Unlock()
InitFailedKeepsLock(p) ==
    /\ pc[p] = "initFailed"
    /\ Goto(p, "idle")
    /\ Returned(p)
    /\ UNCHANGED <<wuaSession, misuse, host>>

\* (mutant) a failed initialization is handled like a failed creation, by s.Close()
InitFailedCloses(p) ==
    /\ pc[p] = "initFailed"
    /\ Goto(p, "Close")
    /\ UNCHANGED <<wuaSession, misuse, host, op, sDisp, trace, ret, diag, countRaw, updtCnt, i, packages, eula, found>>

\* wuaSession.Unlock(); return nil, err  -- and the caller returns the error
InitFailed(p) ==
    /\ pc[p] = "initFailed"
    /\ MutexUnlock(p, "idle")
    /\ Returned(p)

\* (mutant) a failed CreateObject returns the error without s.Close()
CreateObjectNoClose(p) ==
    /\ pc[p] = "CreateObject"
    /\ \E ok \in BOOLEAN :
        IF ok
        THEN /\ Log(p, <<EvCall("CreateObject", -1, -1), EvAcq("unknown", -1, -1)>>)
             /\ Goto(p, "QueryInterface")
             /\ UNCHANGED <<op, sDisp, ret, diag, countRaw, updtCnt, i, packages, eula, found>>
        ELSE /\ Goto(p, "idle")
             /\ Returned(p)
    /\ UNCHANGED <<wuaSession, misuse, host>>

\* unknown, err := oleutil.CreateObject("Microsoft.Update.Session")
CreateObject(p) ==
    /\ pc[p] = "CreateObject"
    /\ \E ok \in BOOLEAN :
        IF ok
        THEN /\ Log(p, <<EvCall("CreateObject", -1, -1), EvAcq("unknown", -1, -1)>>)
             /\ Goto(p, "QueryInterface")
             /\ UNCHANGED <<ret, diag>>
        ELSE /\ Log(p, Failing(<<EvCall("CreateObject", -1, -1)>>))
             /\ Return(p, <<>>, "oleutil.CreateObject(Microsoft.Update.Session)")
             /\ Goto(p, "Close")
    /\ UNCHANGED <<wuaSession, misuse, host, op, sDisp, countRaw, updtCnt, i, packages, eula, found>>

\* where NewUpdateSession's caller continues with its session
AfterSession(p) == IF op[p] = "WUAUpdates" THEN "GetWUAUpdateCollection" ELSE "Title"

\* disp, err := unknown.QueryInterface(ole.IID_IDispatch); s.IDispatch = disp
QueryInterface(p) ==
    /\ pc[p] = "QueryInterface"
    /\ \E ok \in BOOLEAN :
        IF ok
        THEN /\ Log(p, <<EvCall("QueryInterface", -1, -1), EvAcq("session", -1, -1)>>)
             /\ sDisp' = [sDisp EXCEPT ![p] = TRUE]
             /\ Goto(p, AfterSession(p))
             /\ UNCHANGED <<ret, diag>>
        ELSE /\ Log(p, Failing(<<EvCall("QueryInterface", -1, -1)>>) \o <<EvRel("unknown", -1, -1)>>)
             /\ Return(p, <<>>, "error creating Dispatch object")
             /\ Goto(p, "Close")
             /\ UNCHANGED sDisp
    /\ UNCHANGED <<wuaSession, misuse, host, op, countRaw, updtCnt, i, packages, eula, found>>

\* ---------------------------------------------------------------- Close
\* (mutant) Close unlocks the mutex first and tears the session down after
CloseUnlocksFirst(p) ==
    /\ pc[p] = "Close"
    /\ wuaSession' = 0
    /\ Log(p, IF sDisp[p] THEN <<EvRel("session", -1, -1)>> ELSE <<>>)
    /\ Goto(p, "CoUninitialize")
    /\ UNCHANGED <<misuse, host, op, sDisp, ret, diag, countRaw, updtCnt, i, packages, eula, found>>

\* (mutant) Close begins by taking wuaSession again
CloseLocksAgain(p) ==
    /\ pc[p] = "Close"
    /\ Goto(p, "Lock")
    /\ UNCHANGED <<wuaSession, misuse, host, op, sDisp, trace, ret, diag, countRaw, updtCnt, i, packages, eula, found>>

\* if s.IDispatch != nil { s.IDispatch.Release() }
Close(p) ==
    /\ pc[p] = "Close"
    /\ Log(p, IF sDisp[p] THEN <<EvRel("session", -1, -1)>> ELSE <<>>)
    /\ Goto(p, "CoUninitialize")
    /\ UNCHANGED <<wuaSession, misuse, host, op, sDisp, ret, diag, countRaw, updtCnt, i, packages, eula, found>>

\* ole.CoUninitialize()
CoUninitialize(p) ==
    /\ pc[p] = "CoUninitialize"
    /\ Log(p, <<EvRel("COM", -1, -1)>>)
    /\ Goto(p, "Unlock")
    /\ UNCHANGED <<wuaSession, misuse, host, op, sDisp, ret, diag, countRaw, updtCnt, i, packages, eula, found>>

\* wuaSession.Unlock(), after which Close and then its caller return
Unlock(p) ==
    /\ pc[p] = "Unlock"
    /\ MutexUnlock(p, "idle")
    /\ Returned(p)

\* ----------------------------------------------------------- WUAUpdates
\* (mutant) a failed search only unlocks the mutex instead of closing the session
SearchSkipsClose(p, maxSub) ==
    /\ pc[p] = "GetWUAUpdateCollection"
    /\ \/ \E f \in SearchFails :
            LET r == GetWUAUpdateCollection(f)
            IN  /\ Log(p, r.ev)
                /\ Return(p, <<>>, r.err)
                /\ Goto(p, "Unlock")
                /\ UNCHANGED found
       \/ \E st \in Found(maxSub) :
            /\ Log(p, GetWUAUpdateCollection("none").ev)
            /\ found' = [found EXCEPT ![p] = st]
            /\ Goto(p, "Count")
            /\ UNCHANGED <<ret, diag>>
    /\ UNCHANGED <<wuaSession, misuse, host, op, sDisp, countRaw, updtCnt, i, packages, eula>>

\* updts, err := session.GetWUAUpdateCollection(ctx, query)
Search(p, maxSub) ==
    /\ pc[p] = "GetWUAUpdateCollection"
    /\ \/ \E f \in SearchFails :
            LET r == GetWUAUpdateCollection(f)
            IN  /\ Log(p, r.ev)
                /\ Return(p, <<>>, r.err)
                /\ Goto(p, "Close")
                /\ UNCHANGED found
       \/ \E st \in Found(maxSub) :
            /\ Log(p, GetWUAUpdateCollection("none").ev)
            /\ found' = [found EXCEPT ![p] = st]
            /\ Goto(p, "Count")
            /\ UNCHANGED <<ret, diag>>
    /\ UNCHANGED <<wuaSession, misuse, host, op, sDisp, countRaw, updtCnt, i, packages, eula>>

\* (mutant) updts.Count() where a search that finds nothing is an error
CountZeroIsError(p, maxUpd) ==
    /\ pc[p] = "Count"
    /\ \/ \* the Count property cannot be read
          /\ Log(p, Failing(<<EvCall("updts.Count", -1, -1)>>) \o <<EvRel("updts", -1, -1)>>)
          /\ Return(p, <<>>, "IDispatch.GetProperty(Count)")
          /\ Goto(p, "Close")
          /\ Released(p)
          /\ UNCHANGED <<countRaw, updtCnt, i, packages>>
       \/ \E v \in CountVariants(maxUpd) :
            /\ countRaw' = [countRaw EXCEPT ![p] = v]
            /\ updtCnt' = [updtCnt EXCEPT ![p] = GetCount(v)]
            /\ IF GetCount(v) = 0
               THEN /\ Log(p, <<EvCall("updts.Count", -1, -1), EvRel("updts", -1, -1)>>)
                    /\ Return(p, <<>>, "no updates")
                    /\ Goto(p, "Close")
                    /\ Released(p)
                    /\ UNCHANGED <<i, packages>>
               ELSE /\ Log(p, <<EvCall("updts.Count", -1, -1)>>)
                    /\ i' = [i EXCEPT ![p] = 0]
                    /\ packages' = [packages EXCEPT ![p] = <<>>]
                    /\ Goto(p, "Loop")
                    /\ UNCHANGED <<ret, diag, found>>
    /\ UNCHANGED <<wuaSession, misuse, host, op, sDisp, eula>>

\* updtCnt, err := updts.Count(); if updtCnt == 0 { return nil, nil }
Count(p, maxUpd) ==
    /\ pc[p] = "Count"
    /\ \/ \* the Count property cannot be read
          /\ Log(p, Failing(<<EvCall("updts.Count", -1, -1)>>) \o <<EvRel("updts", -1, -1)>>)
          /\ Return(p, <<>>, "IDispatch.GetProperty(Count)")
          /\ Goto(p, "Close")
          /\ Released(p)
          /\ UNCHANGED <<countRaw, updtCnt, i, packages>>
       \/ \E v \in CountVariants(maxUpd) :
            /\ countRaw' = [countRaw EXCEPT ![p] = v]
            /\ updtCnt' = [updtCnt EXCEPT ![p] = GetCount(v)]
            /\ IF GetCount(v) = 0
               THEN /\ Log(p, <<EvCall("updts.Count", -1, -1), EvRel("updts", -1, -1)>>)
                    /\ Return(p, <<>>, Nil)
                    /\ Goto(p, "Close")
                    /\ Released(p)
                    /\ UNCHANGED <<i, packages>>
               ELSE /\ Log(p, <<EvCall("updts.Count", -1, -1)>>)
                    /\ i' = [i EXCEPT ![p] = 0]
                    /\ packages' = [packages EXCEPT ![p] = <<>>]
                    /\ Goto(p, "Loop")
                    /\ UNCHANGED <<ret, diag, found>>
    /\ UNCHANGED <<wuaSession, misuse, host, op, sDisp, eula>>

\* the loop of WUAUpdates leaving out the last update
LoopStopsEarly(p) == i[p] < updtCnt[p] - 1

\* the loop condition of: for i := 0; i < int(updtCnt); i++
LoopCondition(p) == i[p] < updtCnt[p]

\* one iteration of the loop of WUAUpdates that skips an update it cannot extract
ExtractPkgSkipsFailed(p, maxSub) ==
    /\ pc[p] = "Loop"
    /\ LoopCondition(p)
    /\ \E fail \in FailPoints(maxSub) \cup {NoFail} :
        LET r == extractPkg(Response(found[p], fail), i[p])
        IN  /\ Log(p, r.ev)
            /\ packages' = [packages EXCEPT ![p] = IF r.err # Nil THEN @ ELSE Append(@, r.pkg)]
            /\ i' = [i EXCEPT ![p] = @ + 1]
            /\ UNCHANGED <<pc, ret, diag>>
    /\ UNCHANGED <<wuaSession, misuse, host, op, sDisp, countRaw, updtCnt, eula, found>>

\* one iteration of: for i := 0; i < int(updtCnt); i++ { pkg, err := updts.extractPkg(i) ... }
ExtractPkg(p, maxSub) ==
    /\ pc[p] = "Loop"
    /\ LoopCondition(p)
    /\ \E fail \in FailPoints(maxSub) \cup {NoFail} :
        LET r == extractPkg(Response(found[p], fail), i[p])
        IN  IF r.err # Nil
            THEN /\ Log(p, r.ev \o <<EvRel("updts", -1, -1)>>)
                 /\ Return(p, <<>>, r.err)
                 /\ Goto(p, "Close")
                 /\ Released(p)
                 /\ UNCHANGED <<i, packages>>
            ELSE /\ Log(p, r.ev)
                 /\ packages' = [packages EXCEPT ![p] = Append(@, r.pkg)]
                 /\ i' = [i EXCEPT ![p] = @ + 1]
                 /\ UNCHANGED <<pc, ret, diag, found>>
    /\ UNCHANGED <<wuaSession, misuse, host, op, sDisp, countRaw, updtCnt, eula>>

\* (mutant) WUAUpdates returning its packages with the collection still held
ReturnKeepsUpdts(p) ==
    /\ pc[p] = "Loop"
    /\ ~LoopCondition(p)
    /\ Return(p, packages[p], Nil)
    /\ Goto(p, "Close")
    /\ Released(p)
    /\ UNCHANGED <<wuaSession, misuse, host, op, sDisp, trace, countRaw, updtCnt, i, packages, eula>>

\* the loop is over: return packages, nil
ReturnPackages(p) ==
    /\ pc[p] = "Loop"
    /\ ~LoopCondition(p)
    /\ Log(p, <<EvRel("updts", -1, -1)>>)
    /\ Return(p, packages[p], Nil)
    /\ Goto(p, "Close")
    /\ Released(p)
    /\ UNCHANGED <<wuaSession, misuse, host, op, sDisp, countRaw, updtCnt, i, packages, eula>>

\* --------------------------------------------------- NewUpdateCollection
CollFails == {"CreateObject", "IDispatch"}

NewUpdateCollection(fail) ==
    LET e1 == <<EvCall("CreateObject(UpdateColl)", -1, -1)>>
        e2 == e1 \o <<EvAcq("updateCollObj", -1, -1), EvCall("updateCollObj.IDispatch", -1, -1)>>
        drop == <<EvRel("updateCollObj", -1, -1)>>
    IN  IF fail = "CreateObject"
        THEN [err |-> "oleutil.CreateObject(Microsoft.Update.UpdateColl)", ev |-> Failing(e1)]
        ELSE IF fail = "IDispatch"
        THEN [err |-> "updateCollObj.IDispatch", ev |-> Failing(e2) \o drop]
        ELSE [err |-> Nil, ev |-> e2 \o <<EvAcq("updts", -1, -1)>> \o drop]

\* ----------------------------------------------------- InstallWUAUpdate
\* eula.Val as the platform can report it: 0 is VARIANT_FALSE
EulaVals == {0, 1, 65535}

\* the deferred updts.Release() of InstallWUAUpdate
ReleaseUpdts == <<EvRel("updts", -1, -1)>>

\* a goroutine opens a session of its own to install one update with it:
\* NewUpdateSession(), s.InstallWUAUpdate(ctx, updt), s.Close()
CallInstall(p) ==
    /\ pc[p] = "idle"
    /\ op' = [op EXCEPT ![p] = "Install"]
    /\ Goto(p, "Lock")
    /\ UNCHANGED <<wuaSession, misuse, host, sDisp, trace, ret, diag, countRaw, updtCnt, i, packages, eula, found>>

\* one automation call of InstallWUAUpdate: it succeeds and the call goes on at
\* `next`, or it fails and InstallWUAUpdate returns `err`
Automation(p, call, okEv, failEv, err, next) ==
    /\ \E ok \in BOOLEAN :
        IF ok
        THEN /\ Log(p, <<EvCall(call, -1, -1)>> \o okEv)
             /\ Goto(p, next)
             /\ UNCHANGED <<ret, diag>>
        ELSE /\ Log(p, Failing(<<EvCall(call, -1, -1)>>) \o failEv)
             /\ Return(p, <<>>, err)
             /\ Goto(p, "Close")
    /\ UNCHANGED <<wuaSession, misuse, host, op, sDisp, countRaw, updtCnt, i, packages, eula, found>>

\* title, err := updt.GetProperty("Title")
Title(p) ==
    /\ pc[p] = "Title"
    /\ Automation(p, "Title", <<>>, <<>>, "updt.GetProperty(Title)",
                "NewUpdateCollection")

\* updts, err := NewUpdateCollection(); defer updts.Release()
CreateCollection(p) ==
    /\ pc[p] = "NewUpdateCollection"
    /\ \E f \in CollFails \cup {"none"} :
        LET r == NewUpdateCollection(f)
        IN  /\ Log(p, r.ev)
            /\ IF r.err # Nil
               THEN Return(p, <<>>, r.err) /\ Goto(p, "Close")
               ELSE UNCHANGED <<ret, diag>> /\ Goto(p, "EulaAccepted")
    /\ UNCHANGED <<wuaSession, misuse, host, op, sDisp, countRaw, updtCnt, i, packages, eula, found>>

\* EulaAccepted with the test of eula.Val inverted
EulaTestInverted(p) ==
    /\ pc[p] = "EulaAccepted"
    /\ \/ /\ Log(p, Failing(<<EvCall("EulaAccepted", -1, -1)>>) \o ReleaseUpdts)
          /\ Return(p, <<>>, "updt.GetProperty(EulaAccepted)")
          /\ Goto(p, "Close")
          /\ UNCHANGED eula
       \/ \E v \in EulaVals :
            /\ Log(p, <<EvCall("EulaAccepted", -1, -1)>>)
            /\ eula' = [eula EXCEPT ![p] = v]
            /\ Goto(p, IF v # 0 THEN "AcceptEula" ELSE "Add")
            /\ UNCHANGED <<ret, diag>>
    /\ UNCHANGED <<wuaSession, misuse, host, op, sDisp, countRaw, updtCnt, i, packages, found>>

\* eula, err := updt.GetProperty("EulaAccepted"); if eula.Val == 0 { ... }
EulaAccepted(p) ==
    /\ pc[p] = "EulaAccepted"
    /\ \/ /\ Log(p, Failing(<<EvCall("EulaAccepted", -1, -1)>>) \o ReleaseUpdts)
          /\ Return(p, <<>>, "updt.GetProperty(EulaAccepted)")
          /\ Goto(p, "Close")
          /\ UNCHANGED eula
       \/ \E v \in EulaVals :
            /\ Log(p, <<EvCall("EulaAccepted", -1, -1)>>)
            /\ eula' = [eula EXCEPT ![p] = v]
            /\ Goto(p, IF v = 0 THEN "AcceptEula" ELSE "Add")
            /\ UNCHANGED <<ret, diag>>
    /\ UNCHANGED <<wuaSession, misuse, host, op, sDisp, countRaw, updtCnt, i, packages, found>>

\* (mutant) a failed AcceptEula returns without the deferred updts.Release()
AcceptEulaKeepsUpdts(p) ==
    /\ pc[p] = "AcceptEula"
    /\ Automation(p, "AcceptEula", <<>>, <<>>, "updt.CallMethod(AcceptEula)", "Add")

\* updt.CallMethod("AcceptEula")
AcceptEula(p) ==
    /\ pc[p] = "AcceptEula"
    /\ Automation(p, "AcceptEula", <<>>, ReleaseUpdts,
                "updt.CallMethod(AcceptEula)", "Add")

\* updts.Add(updt) with its error dropped: InstallWUAUpdate goes on to download
AddErrorDropped(p) ==
    /\ pc[p] = "Add"
    /\ \E ok \in BOOLEAN :
        Log(p, IF ok THEN <<EvCall("Add", -1, -1)>> ELSE Failing(<<EvCall("Add", -1, -1)>>))
    /\ Goto(p, "CreateUpdateDownloader")
    /\ UNCHANGED <<wuaSession, misuse, host, op, sDisp, ret, diag, countRaw, updtCnt, i, packages, eula, found>>

\* updts.Add(updt)
Add(p) ==
    /\ pc[p] = "Add"
    /\ Automation(p, "Add", <<>>, ReleaseUpdts,
                "IUpdateCollection.CallMethod(Add, updt)", "CreateUpdateDownloader")

\* ------------------------------------------ DownloadWUAUpdateCollection
\* downloaderRaw, err := s.CallMethod("CreateUpdateDownloader"); defer downloader.Release()
CreateUpdateDownloader(p) ==
    /\ pc[p] = "CreateUpdateDownloader"
    /\ Automation(p, "CreateUpdateDownloader",
                <<EvAcq("downloader", -1, -1)>>, ReleaseUpdts,
                "DownloadWUAUpdateCollection error: CreateUpdateDownloader",
                "downloader.Updates")

\* downloader.PutProperty("Updates", updates.IDispatch)
PutDownloaderUpdates(p) ==
    /\ pc[p] = "downloader.Updates"
    /\ Automation(p, "downloader.Updates",
                <<>>, <<EvRel("downloader", -1, -1)>> \o ReleaseUpdts,
                "DownloadWUAUpdateCollection error: PutProperty Updates",
                "Download")

\* Download with its error dropped: InstallWUAUpdate goes on to install
DownloadErrorDropped(p) ==
    /\ pc[p] = "Download"
    /\ \E ok \in BOOLEAN :
        Log(p, (IF ok THEN <<EvCall("Download", -1, -1), EvAcq("downloadResult", -1, -1)>>
                      ELSE Failing(<<EvCall("Download", -1, -1)>>))
                \o <<EvRel("downloader", -1, -1)>>)
    /\ Goto(p, "CreateUpdateInstaller")
    /\ UNCHANGED <<wuaSession, misuse, host, op, sDisp, ret, diag, countRaw, updtCnt, i, packages, eula, found>>

\* downloader.CallMethod("Download"); return nil
Download(p) ==
    /\ pc[p] = "Download"
    /\ Automation(p, "Download",
                <<EvAcq("downloadResult", -1, -1), EvRel("downloader", -1, -1)>>,
                <<EvRel("downloader", -1, -1)>> \o ReleaseUpdts,
                "DownloadWUAUpdateCollection error: Download",
                "CreateUpdateInstaller")

\* ------------------------------------------- InstallWUAUpdateCollection
\* installerRaw, err := s.CallMethod("CreateUpdateInstaller"); defer installer.Release()
CreateUpdateInstaller(p) ==
    /\ pc[p] = "CreateUpdateInstaller"
    /\ Automation(p, "CreateUpdateInstaller",
                <<EvAcq("installer", -1, -1)>>, ReleaseUpdts,
                "InstallWUAUpdateCollection error: CreateUpdateInstaller",
                "installer.Updates")

\* installer.PutProperty("Updates", updates.IDispatch)
PutInstallerUpdates(p) ==
    /\ pc[p] = "installer.Updates"
    /\ Automation(p, "installer.Updates",
                <<>>, <<EvRel("installer", -1, -1)>> \o ReleaseUpdts,
                "InstallWUAUpdateCollection error: PutProperty Updates",
                "Install")

\* installer.CallMethod("Install"); return nil -- and InstallWUAUpdate returns nil
Install(p) ==
    /\ pc[p] = "Install"
    /\ Automation(p, "Install",
                <<EvAcq("installResult", -1, -1), EvRel("installer", -1, -1)>> \o ReleaseUpdts,
                <<EvRel("installer", -1, -1)>> \o ReleaseUpdts,
                "InstallWUAUpdateCollection error: Install",
                "Close")

\* ------------------------------------------------------- specification
\* a step of goroutine p inside a call, once it holds the lock, with the
\* platform's counts bounded by maxUpd, maxSub
Run(p, maxUpd, maxSub) ==
    \/ CoInitializeEx(p)
    \/ InitFailed(p)
    \/ CreateObject(p)
    \/ QueryInterface(p)
    \/ Close(p)
    \/ CoUninitialize(p)
    \/ Unlock(p)
    \/ Search(p, maxSub)
    \/ Count(p, maxUpd)
    \/ ExtractPkg(p, maxSub)
    \/ ReturnPackages(p)
    \/ Title(p)
    \/ CreateCollection(p)
    \/ EulaAccepted(p)
    \/ AcceptEula(p)
    \/ Add(p)
    \/ CreateUpdateDownloader(p)
    \/ PutDownloaderUpdates(p)
    \/ Download(p)
    \/ CreateUpdateInstaller(p)
    \/ PutInstallerUpdates(p)
    \/ Install(p)

\* a step of goroutine p
Step(p, maxUpd, maxSub) ==
    \/ CallWUAUpdates(p)
    \/ CallInstall(p)
    \/ Lock(p)
    \/ Run(p, maxUpd, maxSub)

\* NumProcs goroutines use the update agent concurrently
Next == \E p \in Procs : Step(p, ConcUpdates, ConcSub)

Spec == Init /\ [][Next]_vars

\* a goroutine calls the exported GetScodeString(ctx, err) with an error of any
\* shape; a panic in it ends the program, the other goroutines with it
CallGetScodeString(p) ==
    /\ pc[p] = "idle"
    /\ \E e \in ErrShapes :
        LET g == GetScodeString(e)
        IN  /\ op' = [op EXCEPT ![p] = "GetScodeString"]
            /\ cause' = [cause EXCEPT ![p] = e]
            /\ scodeStr' = [scodeStr EXCEPT ![p] = g.str]
            /\ clog' = [clog EXCEPT ![p] = @ \o g.logged]
            /\ pc' = IF g.panics
                     THEN [q \in Procs |-> IF q = p THEN "panic" ELSE "fatal"]
                     ELSE [pc EXCEPT ![p] = "GetScodeString"]
    /\ UNCHANGED <<wuaSession, misuse, host, sDisp, trace, ret, countRaw, updtCnt, i, packages, eula, found>>

\* GetScodeString has returned scodeStr to its caller
GetScodeStringReturns(p) ==
    /\ pc[p] = "GetScodeString"
    /\ Goto(p, "idle")
    /\ Returned(p)
    /\ UNCHANGED <<wuaSession, misuse, host>>

\* goroutines that only decode errors
ScodeNext == \E p \in Procs : CallGetScodeString(p) \/ GetScodeStringReturns(p)

ScodeSpec == Init /\ [][ScodeNext]_vars

\* one goroutine, with larger search results
SeqNext == Step(1, MaxUpdates, MaxSub)

SeqSpec == Init /\ [][SeqNext]_vars

\* every platform call returns and a running goroutine is scheduled (weak
\* fairness of the steps inside a call); sync.Mutex hands the lock to a
\* goroutine that keeps waiting for it (starvation mode), so a goroutine blocked
\* in Lock gets the mutex if it is free again and again (strong fairness)
FairSpec ==
    /\ Spec
    /\ \A p \in Procs : WF_vars(Run(p, ConcUpdates, ConcSub)) /\ SF_vars(Lock(p))

\* ------------------------------------------------------------- claims
\* p is between a successful wuaSession.Lock() and the matching Unlock()
InSession(p) == pc[p] \notin {"idle", "Lock", "fatal"}

\* p runs the deferred (or explicit) s.Close() of its call
Closing(p) == pc[p] \in {"Close", "CoUninitialize", "Unlock"}

\* how often event e occurs in trace t
CountEv(t, e) == Cardinality({k \in 1..Len(t) : t[k] = e})

\* C1: in every reachable state at most one goroutine is between a successful
\* wuaSession.Lock() and the matching Unlock(), and it is the one the mutex is
\* locked by, so the platform calls of two sessions never interleave.
C1_AtMostOneSession ==
    /\ Cardinality({p \in Procs : InSession(p)}) <= 1
    /\ \A p \in Procs : InSession(p) => wuaSession = p

C1_Witness ==
    \E p, q \in Procs : p # q /\ pc[p] = "Loop" /\ pc[q] = "Lock"

\* NewUpdateSession of q has returned a session, or has returned an error
SessionReturned(q) ==
    \/ sDisp[q]
    \/ pc[q] = "initFailed"
    \/ Closing(q) /\ ret[q].err # Nil

\* C2: a goroutine gets past wuaSession.Lock() (and so initializes the subsystem
\* or creates an object) only when no other session is open, i.e. after the
\* other session's Close has completed; and a goroutine waiting in Lock
\* eventually gets a session or the error of its initialization or creation.
C2_SecondCallWaitsThenProceeds ==
    /\ [][\A q \in Procs :
            (pc[q] = "Lock" /\ pc'[q] # "Lock")
                => \A p \in Procs \ {q} : ~InSession(p)]_vars
    /\ \A q \in Procs : (pc[q] = "Lock") ~> SessionReturned(q)

C2_Witness ==
    \E p, q \in Procs : p # q /\ pc[p] = "Unlock" /\ sDisp[p] /\ pc[q] = "Lock"

\* the call of p returns to its caller in this step
Returns(p) == pc[p] # "idle" /\ pc'[p] = "idle"

\* C3: whenever WUAUpdates returns after NewUpdateSession succeeded, whatever
\* the exit path, the subsystem initialized for the session has been
\* uninitialized exactly once and the return leaves the mutex unlocked.
C3_SessionClosedOnEveryExit ==
    [][\A p \in Procs :
        (Returns(p) /\ op[p] = "WUAUpdates" /\ sDisp[p])
            => /\ CountEv(trace[p], EvAcq("COM", -1, -1)) = 1
               /\ CountEv(trace[p], EvRel("COM", -1, -1)) = 1
               /\ wuaSession = p
               /\ wuaSession' = 0]_vars

C3_Witness ==
    \E p \in Procs :
        /\ op[p] = "WUAUpdates" /\ pc[p] = "Unlock" /\ sDisp[p] /\ ret[p].err # Nil
        /\ \E k \in 1..Len(trace[p]) : trace[p][k][1] = "fail" /\ trace[p][k][3] >= 0

\* C4: a failed coInitializeEx makes NewUpdateSession return its error and no
\* session, with the mutex unlocked by that return and CoUninitialize not called.
C4_InitFailureReleasesLock ==
    [][\A p \in Procs :
        /\ (pc[p] = "coInitializeEx" /\ pc'[p] # "coInitializeEx"
                /\ CountEv(trace'[p], EvFail("coInitializeEx", -1, -1)) > 0)
            => pc'[p] = "initFailed" /\ ret'[p].err # Nil /\ wuaSession' = p
        /\ (pc[p] = "initFailed" /\ pc'[p] # "initFailed")
            => /\ pc'[p] = "idle"
               /\ wuaSession = p
               /\ wuaSession' = 0
               /\ ~sDisp[p]
               /\ ret[p] = [pkgs |-> <<>>, err |-> "coInitializeEx"]
               /\ CountEv(trace[p], EvRel("COM", -1, -1)) = 0]_vars

C4_Witness ==
    \E p, q \in Procs : p # q /\ pc[p] = "initFailed" /\ pc[q] = "Lock"

\* C5: the mutex is held by p from its Lock until its call returns and is
\* unlocked by that return, once, never by a goroutine that does not hold it;
\* when the call returns through Close, the subsystem is uninitialized once and
\* the session's root handle is released once if it was obtained (construction
\* succeeded) and not at all if construction failed before.
C5_LockReleasedExactlyOnce ==
    /\ [](misuse = "none")
    /\ [][\A p \in Procs :
            Returns(p)
                => /\ CountEv(trace[p], EvAcq("wuaSession", -1, -1)) = 1
                   /\ wuaSession = p
                   /\ wuaSession' = 0
                   /\ pc[p] \in {"Unlock", "initFailed"}
                   /\ pc[p] = "Unlock"
                        => /\ CountEv(trace[p], EvRel("COM", -1, -1)) = 1
                           /\ CountEv(trace[p], EvRel("session", -1, -1))
                                = IF sDisp[p] THEN 1 ELSE 0]_vars

C5_Witness ==
    \E p \in Procs :
        /\ pc[p] = "Unlock" /\ ~sDisp[p]
        /\ CountEv(trace[p], EvFail("QueryInterface", -1, -1)) = 1

\* the position of the first occurrence of event e in trace t, 0 if there is none
First(t, e) ==
    IF \E k \in 1..Len(t) : t[k] = e
    THEN CHOOSE k \in 1..Len(t) : t[k] = e /\ \A j \in 1..(k - 1) : t[j] # e
    ELSE 0

\* the calls of the download phase, and of the install phase
DownloadPhase == {"CreateUpdateDownloader", "downloader.Updates", "Download"}
InstallPhase == {"CreateUpdateInstaller", "installer.Updates", "Install"}

\* C6: in InstallWUAUpdate every call of the install phase (creating the
\* installer, assigning its Updates, Install) comes after the Download call was
\* made and has returned; and once a call of the download phase has failed, no
\* installer is created and no call of the install phase is ever made.
C6_DownloadBeforeInstall ==
    \A p \in Procs :
        LET t == trace[p]
            dl == First(t, EvCall("Download", -1, -1))
            back == First(t, EvRel("downloader", -1, -1))
        IN  /\ \A k \in 1..Len(t) :
                (t[k][1] = "call" /\ t[k][2] \in InstallPhase)
                    => 0 < dl /\ dl < back /\ back < k
            /\ (\E n \in DownloadPhase : CountEv(t, EvFail(n, -1, -1)) > 0)
                => /\ \A k \in 1..Len(t) : t[k][2] \notin InstallPhase
                   /\ CountEv(t, EvAcq("installer", -1, -1)) = 0
                   /\ Closing(p) /\ ret[p].err # Nil

C6_Witness ==
    \E p \in Procs :
        /\ pc[p] = "Unlock"
        /\ CountEv(trace[p], EvFail("Download", -1, -1)) = 1

\* C7: once InstallWUAUpdate has reached the download phase, AcceptEula was
\* called exactly once, before Download, if EulaAccepted read as 0, and was
\* not called at all if it read as any other value.
C7_AcceptEulaOnceIffNotAccepted ==
    \A p \in Procs :
        LET t == trace[p]
            accept == EvCall("AcceptEula", -1, -1)
        IN  CountEv(t, EvCall("CreateUpdateDownloader", -1, -1)) > 0
                => IF eula[p] = 0
                   THEN /\ CountEv(t, accept) = 1
                        /\ CountEv(t, EvFail("AcceptEula", -1, -1)) = 0
                        /\ First(t, EvCall("EulaAccepted", -1, -1)) < First(t, accept)
                        /\ First(t, accept) < First(t, EvCall("CreateUpdateDownloader", -1, -1))
                        /\ \A k \in 1..Len(t) :
                            t[k] = EvCall("Download", -1, -1) => First(t, accept) < k
                   ELSE CountEv(t, accept) = 0

C7_Witness ==
    \E p \in Procs :
        /\ eula[p] = 0
        /\ CountEv(trace[p], EvCall("AcceptEula", -1, -1)) = 1
        /\ CountEv(trace[p], EvCall("Download", -1, -1)) = 1

\* the calls that make the session, before InstallWUAUpdate is entered
SessionCalls == {"coInitializeEx", "CreateObject", "QueryInterface"}

\* the platform calls InstallWUAUpdate has made so far, and those that failed
InstallCalls(t) ==
    LET c == SelectSeq(t, LAMBDA e : e[1] = "call" /\ e[2] \notin SessionCalls)
    IN  [k \in 1..Len(c) |-> c[k][2]]

InstallFails(t) ==
    LET c == SelectSeq(t, LAMBDA e : e[1] = "fail" /\ e[2] \notin SessionCalls)
    IN  [k \in 1..Len(c) |-> c[k][2]]

\* the steps of an install that meets no failure, the flag having read as v
InstallSteps(v) ==
    <<"Title", "CreateObject(UpdateColl)", "updateCollObj.IDispatch", "EulaAccepted">>
        \o (IF v = 0 THEN <<"AcceptEula">> ELSE <<>>)
        \o <<"Add", "CreateUpdateDownloader", "downloader.Updates", "Download",
             "CreateUpdateInstaller", "installer.Updates", "Install">>

IsPrefix(a, b) == Len(a) <= Len(b) /\ \A k \in 1..Len(a) : a[k] = b[k]

\* C8: the platform calls of one InstallWUAUpdate are a prefix of the fixed
\* sequence of steps (so no step is made twice or out of order); a failed step
\* is the last one made and InstallWUAUpdate has then returned a non-nil error;
\* while no step has failed it has returned no error; and it has returned nil
\* only after all the steps were made and none failed.
C8_InstallStepsArePrefix ==
    \A p \in Procs :
        op[p] = "Install" =>
            LET c == InstallCalls(trace[p])
                f == InstallFails(trace[p])
            IN  /\ IsPrefix(c, InstallSteps(eula[p]))
                /\ Len(f) <= 1
                /\ Len(f) = 1
                    => /\ f[1] = c[Len(c)]
                       /\ Closing(p)
                       /\ ret[p].err # Nil
                /\ (sDisp[p] /\ Len(f) = 0) => ret[p].err = Nil
                /\ (sDisp[p] /\ Closing(p) /\ ret[p].err = Nil)
                    => c = InstallSteps(eula[p]) /\ Len(f) = 0
                /\ (sDisp[p] /\ ~Closing(p)) => c # InstallSteps(eula[p])

C8_Witness ==
    \E p \in Procs :
        /\ op[p] = "Install" /\ pc[p] = "Unlock" /\ ret[p].err = Nil
        /\ InstallCalls(trace[p]) = InstallSteps(0)

\* the positions in trace t of the failures met while extracting an update
ExtractFails(t) == {k \in 1..Len(t) : t[k][1] = "fail" /\ t[k][3] >= 0}

\* C9: when a read fails while the update at index K of the N the search found
\* is extracted, WUAUpdates has returned an error and no list: the K packages
\* extracted before are dropped, no call is made after the failed one and none
\* for a later update; and WUAUpdates never returns fewer than N packages
\* together with a nil error, nor any package together with an error.
C9_ExtractionFailsFast ==
    \A p \in Procs :
        op[p] = "WUAUpdates" =>
            LET t == trace[p]
            IN  /\ \A k \in ExtractFails(t) :
                    /\ Closing(p)
                    /\ ret[p].err # Nil
                    /\ ret[p].pkgs = <<>>
                    /\ countRaw[p].vt = "VT_I4" /\ t[k][3] < countRaw[p].val
                    /\ Len(packages[p]) = t[k][3]
                    /\ \A j \in 1..Len(t) : t[j][3] <= t[k][3]
                    /\ \A j \in (k + 1)..Len(t) : t[j][1] # "call"
                /\ (Closing(p) /\ ret[p].err = Nil /\ countRaw[p].vt = "VT_I4")
                    => Len(ret[p].pkgs) >= countRaw[p].val
                /\ ret[p].pkgs # <<>> => ret[p].err = Nil

C9_Witness ==
    \E p \in Procs :
        /\ op[p] = "WUAUpdates" /\ pc[p] = "Unlock"
        /\ countRaw[p] = Variant("VT_I4", 3)
        /\ Len(packages[p]) = 1
        /\ ret[p].pkgs = <<>>
        /\ \E k \in ExtractFails(trace[p]) : trace[p][k][3] = 1

\* the c.Item calls in trace t
ItemCalls(t) == SelectSeq(t, LAMBDA e : e[1] = "call" /\ e[2] = "Item")

\* C10: when the collection of the search reports N updates (Count reads as the
\* 32-bit integer N >= 0) and WUAUpdates returns without error, it returns N
\* packages, the one at position k made of what was read from the update at
\* index k, and c.Item was called once for each index 0..N-1, in that order.
C10_AllPackagesInOrder ==
    \A p \in Procs :
        (/\ op[p] = "WUAUpdates" /\ Closing(p) /\ ret[p].err = Nil
         /\ countRaw[p].vt = "VT_I4" /\ countRaw[p].val >= 0)
            => LET N == countRaw[p].val
                   pkgs == ret[p].pkgs
                   items == ItemCalls(trace[p])
               IN  /\ Len(pkgs) = N
                   /\ \A k \in 1..Len(pkgs) :
                        /\ pkgs[k].item = k - 1
                        /\ pkgs[k].Title = <<"Title", k - 1>>
                        /\ pkgs[k].UpdateID = <<"UpdateID", k - 1>>
                   /\ Len(items) = N
                   /\ \A k \in 1..Len(items) : items[k] = EvCall("Item", k - 1, -1)

C10_Witness ==
    \E p \in Procs :
        /\ op[p] = "WUAUpdates" /\ pc[p] = "Unlock" /\ ret[p].err = Nil
        /\ countRaw[p] = Variant("VT_I4", 3)
        /\ Len(ret[p].pkgs) = 3

\* the packages of the call of p: those it has extracted and those it returns
Extracted(p) ==
    {packages[p][k] : k \in 1..Len(packages[p])} \cup {ret[p].pkgs[k] : k \in 1..Len(ret[p].pkgs)}

\* C11: in every package WUAUpdates has extracted or returns, Categories and
\* CategoryIDs have the same length and position k of both holds the Name and
\* the CategoryID of category item k of that update; and whatever read fails
\* while the categories of the next update are read, categories() returns an
\* error and no list at all, never lists of different lengths.
C11_CategoriesAligned ==
    \A p \in Procs :
        /\ \A pkg \in Extracted(p) :
            /\ Len(pkg.Categories) = Len(pkg.CategoryIDs)
            /\ \A k \in 1..Len(pkg.Categories) :
                /\ pkg.Categories[k] = <<"Name", pkg.item, k - 1>>
                /\ pkg.CategoryIDs[k] = <<"CategoryID", pkg.item, k - 1>>
        /\ (pc[p] = "Loop" /\ LoopCondition(p))
            => \A fail \in FailPoints(MaxSub) \cup {NoFail} :
                LET r == categories(Response(found[p], fail), i[p])
                IN  /\ Len(r.cns) = Len(r.cids)
                    /\ r.err # Nil => r.cns = <<>> /\ r.cids = <<>>
                    /\ fail[1] \in {"Name", "CategoryID"} /\ fail[2] < GetCount(found[p].cat)
                        => r.err # Nil

C11_Witness ==
    \E p \in Procs :
        /\ pc[p] = "Loop" /\ LoopCondition(p)
        /\ GetCount(found[p].cat) = 2
        /\ \E pkg \in Extracted(p) : Len(pkg.Categories) = 2 /\ Len(pkg.CategoryIDs) = 2

\* C12: when the Count of the search result reads as 0, WUAUpdates returns no
\* list and no error and has asked for no item of the collection; and an
\* update whose KBArticleIDs, Categories or MoreInfoURLs has Count 0 gets no
\* list for that field, no item of that sub-collection is read, and reading
\* the field is no error.
C12_NothingFoundIsNoError ==
    \A p \in Procs :
        LET t == trace[p]
            zero == Variant("VT_I4", 0)
        IN  /\ (op[p] = "WUAUpdates" /\ Closing(p) /\ countRaw[p] = zero)
                => /\ ret[p] = [pkgs |-> <<>>, err |-> Nil]
                   /\ \A k \in 1..Len(t) : t[k][3] = -1
            /\ pc[p] = "Loop"
                => /\ \A pkg \in Extracted(p) :
                        /\ found[p].kb = zero => pkg.KBArticleIDs = <<>>
                        /\ found[p].cat = zero => pkg.Categories = <<>> /\ pkg.CategoryIDs = <<>>
                        /\ found[p].url = zero => pkg.MoreInfoURLs = <<>>
                   /\ found[p].kb = zero
                        => \A k \in 1..Len(t) : t[k][2] # "kbArticleIDs.Item"
                   /\ found[p].cat = zero => \A k \in 1..Len(t) : t[k][2] # "cat.Item"
                   /\ found[p].url = zero
                        => \A k \in 1..Len(t) : t[k][2] # "moreInfoURLs.Item"
                   /\ LET u == Response(found[p], NoFail)
                      IN  /\ found[p].kb = zero
                            => kbaIDs(u, i[p]).err = Nil /\ kbaIDs(u, i[p]).ss = <<>>
                          /\ found[p].cat = zero
                            => categories(u, i[p]).err = Nil /\ categories(u, i[p]).cns = <<>>
                          /\ found[p].url = zero
                            => moreInfoURLs(u, i[p]).err = Nil /\ moreInfoURLs(u, i[p]).ss = <<>>

C12_Witness ==
    \E p \in Procs :
        /\ op[p] = "WUAUpdates" /\ pc[p] = "Unlock"
        /\ countRaw[p] = Variant("VT_I4", 0)
        /\ CountEv(trace[p], EvCall("updts.Count", -1, -1)) = 1

\* the mutex and the COM subsystem are taken and given back, but are no handles
NoHandles == {"wuaSession", "COM"}

\* in trace t every handle but those named in skip was acquired once and
\* released once, and nothing was released that was not acquired
ReleasedOnce(t, skip) ==
    \A k \in 1..Len(t) :
        (t[k][1] \in {"acq", "rel"} /\ t[k][2] \notin NoHandles \cup skip)
            => /\ CountEv(t, EvAcq(t[k][2], t[k][3], t[k][4])) = 1
               /\ CountEv(t, EvRel(t[k][2], t[k][3], t[k][4])) = 1

\* C13: when WUAUpdates returns, every handle acquired during the call (the
\* object CreateObject returned, the session's dispatch handle, searcher,
\* result, collection, updates, sub-collections, category items, identities)
\* has been released exactly once.
C13_SearchHandlesReleasedOnce ==
    [][\A p \in Procs :
        (Returns(p) /\ op[p] = "WUAUpdates") => ReleasedOnce(trace[p], {})]_vars

\* C13 for every handle but the object CreateObject returned
C13_AllButUnknownReleasedOnce ==
    [][\A p \in Procs :
        (Returns(p) /\ op[p] = "WUAUpdates") => ReleasedOnce(trace[p], {"unknown"})]_vars

\* the handles of the session itself, which InstallWUAUpdate is given
SessionHandles == {"unknown", "session"}

\* C14: when InstallWUAUpdate has returned, every handle acquired during it
\* (the collection object and its dispatch handle, the downloader, the
\* installer, the objects Download and Install returned) has been released
\* exactly once.
C14_InstallHandlesReleasedOnce ==
    \A p \in Procs :
        (op[p] = "Install" /\ pc[p] = "Close") => ReleasedOnce(trace[p], SessionHandles)

\* C14 for every handle but the objects Download and Install returned
C14_AllButResultsReleasedOnce ==
    \A p \in Procs :
        (op[p] = "Install" /\ pc[p] = "Close")
            => ReleasedOnce(trace[p], SessionHandles \cup {"downloadResult", "installResult"})

\* C15: the collection InstallWUAUpdate created is held while the call runs and
\* is released once, as its last act, when the call returns, whatever the
\* outcome; when creating the collection failed, InstallWUAUpdate returns the
\* error, releases no collection, and has neither read EulaAccepted nor called
\* AcceptEula.
C15_CollectionReleasedOnExit ==
    \A p \in Procs :
        op[p] = "Install" =>
            LET t == trace[p]
                created == CountEv(t, EvAcq("updts", -1, -1))
                released == CountEv(t, EvRel("updts", -1, -1))
            IN  /\ created <= 1
                /\ released = (IF created = 1 /\ Closing(p) THEN 1 ELSE 0)
                /\ (created = 1 /\ pc[p] = "Close") => t[Len(t)] = EvRel("updts", -1, -1)
                /\ (\/ CountEv(t, EvFail("CreateObject(UpdateColl)", -1, -1)) > 0
                    \/ CountEv(t, EvFail("updateCollObj.IDispatch", -1, -1)) > 0)
                    => /\ created = 0
                       /\ Closing(p) /\ ret[p].err # Nil
                       /\ CountEv(t, EvCall("EulaAccepted", -1, -1)) = 0
                       /\ CountEv(t, EvCall("AcceptEula", -1, -1)) = 0

C15_Witness ==
    \E p \in Procs :
        /\ op[p] = "Install" /\ pc[p] = "Close"
        /\ CountEv(trace[p], EvFail("AcceptEula", -1, -1)) = 1
        /\ CountEv(trace[p], EvRel("updts", -1, -1)) = 1

\* C16: in WUAUpdates, when session.Close() begins, the collection of the
\* search and every handle obtained from it or for it (searcher, result,
\* updates, sub-collections, category items, identities) has been acquired
\* once and released once; and after Close has released the session's handle
\* or uninitialized the subsystem no platform call is made and no such handle
\* is acquired or released.
C16_NoHandleOutlivesSession ==
    \A p \in Procs :
        op[p] = "WUAUpdates" =>
            LET t == trace[p]
            IN  /\ Closing(p) => ReleasedOnce(t, SessionHandles)
                /\ \A k \in 1..Len(t) :
                    t[k] \in {EvRel("session", -1, -1), EvRel("COM", -1, -1)}
                        => \A j \in (k + 1)..Len(t) :
                            /\ t[j][1] \in {"acq", "rel"}
                            /\ t[j][2] \in NoHandles \cup SessionHandles

C16_Witness ==
    \E p \in Procs :
        /\ op[p] = "WUAUpdates" /\ pc[p] = "Unlock" /\ sDisp[p]
        /\ CountEv(trace[p], EvRel("updt", 1, -1)) = 1
        /\ CountEv(trace[p], EvFail("CategoryID", 1, 0)) = 1

\* C17: GetScodeString returns a string for an error of every shape and never
\* panics.
C17_GetScodeStringNeverPanics ==
    \A p \in Procs : pc[p] # "panic"

\* the number four hexadecimal digits stand for
Val4(d) == d[1] * 4096 + d[2] * 256 + d[3] * 16 + d[4]

\* the uint32 that up to eight hexadecimal digits stand for
HexValue(d) ==
    LET full == [k \in 1..8 |-> IF k <= 8 - Len(d) THEN 0 ELSE d[k - (8 - Len(d))]]
    IN  Scode(Val4(SubSeq(full, 1, 4)), Val4(SubSeq(full, 5, 8)))

ScodeFailure(p) ==
    sDisp[p] /\ Closing(p) /\ cause[p].kind = "*OleError+EXCEPINFO"

\* the SCODE of the failure is appended to the message and logged
ScodeReported(p) ==
    /\ scodeStr[p] = [text |-> " SCODE: 0x", digits |-> Hex32(cause[p].scode)]
    /\ Len(clog[p]) = 1
    /\ clog[p][1].digits = Hex32(cause[p].scode)

\* C19: whenever an automation call of WUAUpdates or InstallWUAUpdate fails
\* with an error that carries an SCODE, the error returned has the SCODE
\* appended to its message and the SCODE is logged.
C19_ScodeAlwaysReported ==
    \A p \in Procs : ScodeFailure(p) => ScodeReported(p)

\* C19 for the calls of GetWUAUpdateCollection, DownloadWUAUpdateCollection and
\* InstallWUAUpdateCollection only; the other failures report no SCODE
C19_ScodeReportedAtScodeSites ==
    \A p \in Procs :
        ScodeFailure(p) => (ScodeReported(p) <=> ret[p].err \in ScodeSites)

\* C20: when ole.GetVariantDate fails for the update at index a, extractPkg
\* makes no further call (Identity, RevisionNumber and UpdateID of the update
\* are not read), the update's handle is released once, after the failure, and
\* WUAUpdates returns that error and no list, the packages extracted before
\* being dropped and the later updates not extracted.
C20_DateDecodeFailureAborts ==
    \A p \in Procs :
        LET t == trace[p]
        IN  \A k \in 1..Len(t) :
                (t[k][1] = "fail" /\ t[k][2] = "GetVariantDate") =>
                    LET a == t[k][3]
                    IN  /\ \A j \in 1..Len(t) :
                            /\ t[j][2] \notin {"Identity", "identity", "RevisionNumber", "UpdateID"}
                                \/ t[j][3] # a
                            /\ j > k => t[j][1] = "rel"
                            /\ t[j][3] <= a
                        /\ CountEv(t, EvRel("updt", a, -1)) = 1
                        /\ k < First(t, EvRel("updt", a, -1))
                        /\ Closing(p)
                        /\ ret[p] = [pkgs |-> <<>>, err |-> "ole.GetVariantDate"]
                        /\ Len(packages[p]) = a
                        /\ cause[p] = PlainErr /\ scodeStr[p] = EmptyStr

C20_Witness ==
    \E p \in Procs :
        /\ pc[p] = "Unlock"
        /\ countRaw[p] = Variant("VT_I4", 3)
        /\ CountEv(trace[p], EvFail("GetVariantDate", 1, -1)) = 1

\* ------------------------------------------------ attributes.PostAttribute
\* http.StatusOK
StatusOK == 200

\* the status codes the endpoint answers with
Statuses == {200, 201, 204, 403, 404, 503}

\* the urls PostAttribute is called with; url.Parse rejects the last two
URLs == {"http://metadata.google.internal/computeMetadata/v1/instance/guest-attributes/guestInventory/Hostname",
         "http://169.254.169.254/computeMetadata/v1/instance/guest-attributes/guestInventory/Version",
         "%zz", ":"}
Unparsable == {"%zz", ":"}

\* what the value reader yields
Values == {"", "H4sIAAAA"}

\* the bodies of the endpoint's responses
Bodies == {"", "Forbidden"}

NoRequest == [built |-> FALSE, method |-> "", url |-> "", body |-> "", header |-> <<>>]
NoResponse == [received |-> FALSE, StatusCode |-> 0, body |-> "", readable |-> FALSE, closed |-> FALSE]

\* the values of PostAttribute's error result
PostError(kind, status, method, url, hasBody, body) ==
    [kind |-> kind, status |-> status, method |-> method, url |-> url, hasBody |-> hasBody, body |-> body]

NoPostError == PostError("nil", 0, "", "", FALSE, "")
\* the error of http.NewRequest and the error of http.DefaultClient.Do
RequestError == PostError("NewRequest", 0, "", "", FALSE, "")
DoError == PostError("Do", 0, "", "", FALSE, "")

\* fmt.Errorf("%s", responseErr): the status and the request line, then the
\* response body if ioutil.ReadAll returned no error
ResponseErr(rq, rs) ==
    PostError("status", rs.StatusCode, rq.method, rq.url, rs.readable, IF rs.readable THEN rs.body ELSE "")

\* (mutant) every 2xx status passes
StatusNot2xx(code) == code \div 100 # 2

\* resp.StatusCode != http.StatusOK
StatusNotOK(code) == code # StatusOK

\* a caller (PostAttributeCompressed among them) calls PostAttribute(url, value)
CallPostAttribute ==
    /\ postPc = "idle"
    /\ \E u \in URLs, v \in Values : args' = [url |-> u, value |-> v]
    /\ postPc' = "NewRequest"
    /\ req' = NoRequest
    /\ resp' = NoResponse
    /\ postErr' = NoPostError
    /\ wire' = <<>>

\* req, err := http.NewRequest("PUT", url, value), then
\* req.Header.Add("Metadata-Flavor", "Google")
NewRequest ==
    /\ postPc = "NewRequest"
    /\ IF args.url \in Unparsable
       THEN /\ postErr' = RequestError
            /\ postPc' = "return"
            /\ UNCHANGED req
       ELSE /\ req' = [built |-> TRUE, method |-> "PUT", url |-> args.url, body |-> args.value,
                       header |-> <<<<"Metadata-Flavor", "Google">>>>]
            /\ postPc' = "Do"
            /\ UNCHANGED postErr
    /\ UNCHANGED <<args, resp, wire>>

\* resp, err := http.DefaultClient.Do(req): the client fails before or after
\* it has written the request, or hands back the endpoint's response
Do ==
    /\ postPc = "Do"
    /\ \/ /\ postErr' = DoError
          /\ postPc' = "return"
          /\ \E written \in BOOLEAN : wire' = IF written THEN Append(wire, req) ELSE wire
          /\ UNCHANGED resp
       \/ /\ \E c \in Statuses, bd \in Bodies, rd \in BOOLEAN :
                resp' = [received |-> TRUE, StatusCode |-> c, body |-> bd, readable |-> rd, closed |-> FALSE]
          /\ wire' = Append(wire, req)
          /\ postPc' = "StatusCode"
          /\ UNCHANGED postErr
    /\ UNCHANGED <<args, req>>

\* the test of resp.StatusCode, the error built from the response, and the
\* deferred resp.Body.Close()
CheckStatus ==
    /\ postPc = "StatusCode"
    /\ postErr' = IF StatusNotOK(resp.StatusCode) THEN ResponseErr(req, resp) ELSE NoPostError
    /\ resp' = [resp EXCEPT !.closed = TRUE]
    /\ postPc' = "return"
    /\ UNCHANGED <<args, req, wire>>

\* PostAttribute returns postErr to its caller
PostAttributeReturns ==
    /\ postPc = "return"
    /\ postPc' = "idle"
    /\ UNCHANGED <<args, req, resp, postErr, wire>>

wua == <<wuaSession, misuse, pc, op, sDisp, trace, ret, cause, scodeStr, clog, countRaw, updtCnt, i,
           packages, eula, found>>

PostNext ==
    \/ CallPostAttribute /\ UNCHANGED <<wua, startup>>
    \/ NewRequest /\ UNCHANGED <<wua, startup>>
    \/ Do /\ UNCHANGED <<wua, startup>>
    \/ CheckStatus /\ UNCHANGED <<wua, startup>>
    \/ PostAttributeReturns /\ UNCHANGED <<wua, startup>>

PostSpec == Init /\ [][PostNext]_vars

\* PostAttribute is at its return statement or has returned
PostReturned == postPc \in {"return", "idle"} /\ args.url # ""

\* C21: PostAttribute puts at most one request on the wire, a PUT with the
\* header Metadata-Flavor: Google, and exactly one when it gets a response; it
\* returns nil if and only if the request was sent and the response status is
\* 200; for any other status it returns an error with the status and, when the
\* body could be read, the body; a failure of http.NewRequest or of Do is
\* returned as an error
C21_NilIffStatusOK ==
    /\ Len(wire) <= 1
    /\ \A k \in 1..Len(wire) :
        /\ wire[k].method = "PUT"
        /\ wire[k].header = <<<<"Metadata-Flavor", "Google">>>>
        /\ wire[k].url = args.url
        /\ wire[k].body = args.value
    /\ resp.received => Len(wire) = 1
    /\ PostReturned =>
        /\ postErr = NoPostError <=> (Len(wire) = 1 /\ resp.received /\ resp.StatusCode = 200)
        /\ (resp.received /\ resp.StatusCode # 200) =>
            /\ postErr.kind = "status"
            /\ postErr.status = resp.StatusCode
            /\ resp.readable => (postErr.hasBody /\ postErr.body = resp.body)
            /\ ~resp.readable => ~postErr.hasBody
        /\ args.url \in Unparsable => (postErr = RequestError /\ wire = <<>>)
        /\ (args.url \notin Unparsable /\ ~resp.received) => postErr = DoError
        /\ resp.received => resp.closed

\* a 204 answer with a readable body has been turned into an error that carries both
C21_Witness ==
    /\ postPc = "return"
    /\ resp.received /\ resp.StatusCode = 204 /\ resp.readable /\ resp.body = "Forbidden"
    /\ postErr.kind = "status" /\ postErr.status = 204 /\ postErr.body = "Forbidden"
    /\ Len(wire) = 1

\* p is in NewUpdateSession between wuaSession.Lock() and its return
Initializing(p) == pc[p] \in {"coInitializeEx", "initFailed", "CreateObject", "QueryInterface"}

\* C22: subsystem initialization and object creation happen only while the
\* caller holds wuaSession, and so do the release of the root handle and the
\* uninitialization in Close, which both precede the Unlock; hence no goroutine
\* initializes while another tears down, and in every reachable state a call
\* has uninitialized the subsystem at most as often as it has successfully
\* initialized it.
C22_TeardownUnderLock ==
    \A p \in Procs :
        /\ (Initializing(p) \/ Closing(p)) => wuaSession = p
        /\ Closing(p) => \A q \in Procs \ {p} : ~Initializing(q) /\ ~Closing(q)
        /\ pc[p] = "coInitializeEx"
            => /\ CountEv(trace[p], EvAcq("wuaSession", -1, -1)) = 1
               /\ CountEv(trace[p], EvAcq("COM", -1, -1)) = 0
        /\ CountEv(trace[p], EvAcq("unknown", -1, -1)) > 0
            => First(trace[p], EvAcq("wuaSession", -1, -1)) = 1
        /\ CountEv(trace[p], EvRel("COM", -1, -1)) <= CountEv(trace[p], EvAcq("COM", -1, -1))
        /\ pc[p] = "Unlock"
            => /\ CountEv(trace[p], EvRel("COM", -1, -1)) = 1
               /\ sDisp[p] => /\ First(trace[p], EvRel("session", -1, -1)) > 0
                              /\ First(trace[p], EvRel("session", -1, -1))
                                    < First(trace[p], EvRel("COM", -1, -1))
        /\ pc[p] \in {"idle", "Lock"} => trace[p] = <<>>

\* a session has been released and the subsystem uninitialized while the lock
\* is still held and another goroutine waits for it
C22_Witness ==
    \E p, q \in Procs :
        /\ p # q /\ pc[q] = "Lock"
        /\ pc[p] = "Unlock" /\ sDisp[p] /\ wuaSession = p
        /\ First(trace[p], EvRel("session", -1, -1)) > 0
        /\ CountEv(trace[p], EvRel("COM", -1, -1)) = 1
        /\ CountEv(trace[p], EvAcq("COM", -1, -1)) = 1

\* the VARIANT is a 32-bit integer that is not negative
IsCount(v) == v.vt = "VT_I4" /\ v.val >= 0

\* WUAUpdates of p is returning (nil, nil) or an empty packages slice with a nil error
ReturnsAbsentList(p) ==
    /\ op[p] = "WUAUpdates" /\ Closing(p)
    /\ CountEv(trace[p], EvCall("updts.Count", -1, -1)) = 1
    /\ ret[p].err = Nil /\ ret[p].pkgs = <<>>

\* C23: WUAUpdates returns an absent list with a nil error only when the Count
\* of the result collection is the 32-bit integer 0, a Count that is not a
\* 32-bit integer or is negative being reported as an error; and likewise no
\* update is extracted from sub-collections whose Count is not a 32-bit
\* integer or is negative.
C23_MalformedCountIsError ==
    \A p \in Procs :
        /\ ReturnsAbsentList(p) => countRaw[p] = Variant("VT_I4", 0)
        /\ (op[p] = "WUAUpdates" /\ Len(packages[p]) > 0)
            => IsCount(found[p].kb) /\ IsCount(found[p].cat) /\ IsCount(found[p].url)

\* what holds instead: an absent list with a nil error is returned for the
\* Count 0 and for every Count that GetCount or the loop condition takes for
\* nothing, and for no positive Count
C23_AbsentListForNoPositiveCount ==
    \A p \in Procs :
        ReturnsAbsentList(p) <=>
            /\ op[p] = "WUAUpdates" /\ Closing(p)
            /\ CountEv(trace[p], EvCall("updts.Count", -1, -1)) = 1
            /\ CountEv(trace[p], EvFail("updts.Count", -1, -1)) = 0
            /\ ~(countRaw[p].vt = "VT_I4" /\ countRaw[p].val > 0)

\* C24: with platform calls that return and a mutex that serves its waiters,
\* every call of WUAUpdates eventually returns, and when no call is running
\* the mutex is free; a goroutine never waits for the mutex it holds, and the
\* loop of WUAUpdates has run at most updtCnt times.
C24_EveryCallReturns ==
    /\ [](\A p \in Procs :
            /\ pc[p] = "Lock" => wuaSession # p
            /\ i[p] > 0 => i[p] <= updtCnt[p]
            /\ Len(packages[p]) = i[p]
            /\ op[p] = "WUAUpdates"
                => Len(ItemCalls(trace[p])) <= IF updtCnt[p] > 0 THEN updtCnt[p] ELSE 0)
    /\ []((\A p \in Procs : pc[p] = "idle") => wuaSession = 0)
    /\ \A p \in Procs : (op[p] = "WUAUpdates" /\ pc[p] # "idle") ~> (pc[p] = "idle")

\* a WUAUpdates that has extracted every update found is about to unlock the
\* mutex another WUAUpdates waits for
C24_Witness ==
    \E p, q \in Procs :
        /\ p # q
        /\ op[p] = "WUAUpdates" /\ pc[p] = "Unlock" /\ wuaSession = p
        /\ updtCnt[p] > 0 /\ i[p] = updtCnt[p] /\ ret[p].err = Nil
        /\ op[q] = "WUAUpdates" /\ pc[q] = "Lock"

\* ------------------------------------------------------- obtainLock (Linux)
\* the cleanup obtainLock registers: syscall.Flock(fd, LOCK_UN); f.Close();
\* os.Remove(lockFile)
Cleanup == <<"Flock(LOCK_UN)", "f.Close", "os.Remove(lockFile)">>

\* the inode a newly created lock file gets: one that is neither at the path
\* nor open in any process
FreshInode == CHOOSE n \in Inodes : n # lockFile /\ \A a \in Agents : fOpen[a] # n

\* the process of a ends: the kernel closes its files, which drops its lock
ProcessExit(a, l) ==
    /\ main' = [main EXCEPT ![a] = l]
    /\ flocker' = [flocker EXCEPT ![a] = "none"]
    /\ fOpen' = [fOpen EXCEPT ![a] = 0]
    /\ deferredFuncs' = [deferredFuncs EXCEPT ![a] = <<>>]
    /\ flock' = [n \in Inodes |-> IF flock[n] = a THEN 0 ELSE flock[n]]

\* logger.Fatalf: the message is logged and the process exits; no deferred
\* cleanup runs
Fatalf(a) == ProcessExit(a, "fatal")

\* a process of the agent starts and its main calls obtainLock()
StartAgent(a) ==
    /\ main[a] \in {"off", "fatal"}
    /\ main' = [main EXCEPT ![a] = "Mkdir"]
    /\ UNCHANGED <<flocker, fOpen, deferredFuncs, lockDir, lockFile, flock>>
    /\ UNCHANGED <<wua, post>>

\* err := os.Mkdir(filepath.Dir(lockFile), 1777); an error other than
\* "exists" is fatal
Mkdir(a) ==
    /\ main[a] = "Mkdir"
    /\ \/ /\ lockDir
          /\ main' = [main EXCEPT ![a] = "OpenFile"]
          /\ UNCHANGED <<flocker, fOpen, deferredFuncs, lockDir, flock>>
       \/ /\ ~lockDir
          /\ \E ok \in BOOLEAN :
                IF ok
                THEN /\ lockDir' = TRUE
                     /\ main' = [main EXCEPT ![a] = "OpenFile"]
                     /\ UNCHANGED <<flocker, fOpen, deferredFuncs, flock>>
                ELSE /\ Fatalf(a)
                     /\ UNCHANGED lockDir
    /\ UNCHANGED lockFile
    /\ UNCHANGED <<wua, post>>

\* f, err := os.OpenFile(lockFile, os.O_RDWR|os.O_CREATE, 0600); an error is fatal
OpenFile(a) ==
    /\ main[a] = "OpenFile"
    /\ \E ok \in BOOLEAN :
        IF ok
        THEN /\ lockFile' = IF lockFile = 0 THEN FreshInode ELSE lockFile
             /\ fOpen' = [fOpen EXCEPT ![a] = lockFile']
             /\ main' = [main EXCEPT ![a] = "go"]
             /\ UNCHANGED <<flocker, deferredFuncs, flock>>
        ELSE /\ Fatalf(a)
             /\ UNCHANGED lockFile
    /\ UNCHANGED lockDir
    /\ UNCHANGED <<wua, post>>

\* c := make(chan error); go func() { c <- syscall.Flock(...) }()
Go(a) ==
    /\ main[a] = "go"
    /\ flocker' = [flocker EXCEPT ![a] = "Flock"]
    /\ main' = [main EXCEPT ![a] = "select"]
    /\ UNCHANGED <<fOpen, deferredFuncs, lockDir, lockFile, flock>>
    /\ UNCHANGED <<wua, post>>

\* syscall.Flock(int(f.Fd()), syscall.LOCK_EX) returns in the goroutine: with
\* the lock, once no other open file holds it, or with an error
Flock(a) ==
    /\ flocker[a] = "Flock"
    /\ \/ /\ flock[fOpen[a]] = 0
          /\ flock' = [flock EXCEPT ![fOpen[a]] = a]
          /\ flocker' = [flocker EXCEPT ![a] = "c <- nil"]
       \/ /\ flocker' = [flocker EXCEPT ![a] = "c <- err"]
          /\ UNCHANGED flock
    /\ UNCHANGED <<main, fOpen, deferredFuncs, lockDir, lockFile>>
    /\ UNCHANGED <<wua, post>>

\* case err := <-c: the goroutine's send and the receive of the select meet;
\* an error is fatal
Receive(a) ==
    /\ main[a] = "select"
    /\ flocker[a] \in {"c <- nil", "c <- err"}
    /\ IF flocker[a] = "c <- nil"
       THEN /\ main' = [main EXCEPT ![a] = "append"]
            /\ flocker' = [flocker EXCEPT ![a] = "done"]
            /\ UNCHANGED <<fOpen, deferredFuncs, flock>>
       ELSE Fatalf(a)
    /\ UNCHANGED <<lockDir, lockFile>>
    /\ UNCHANGED <<wua, post>>

\* (mutant) the timeout is logged and obtainLock goes on
TimeoutNotFatal(a) ==
    /\ main[a] = "select"
    /\ main' = [main EXCEPT ![a] = "append"]
    /\ UNCHANGED <<flocker, fOpen, deferredFuncs, flock>>
    /\ UNCHANGED <<lockDir, lockFile>>
    /\ UNCHANGED <<wua, post>>

\* case <-time.After(time.Second): the second has passed, whatever the
\* goroutine has done by then; fatal
Timeout(a) ==
    /\ main[a] = "select"
    /\ Fatalf(a)
    /\ UNCHANGED <<lockDir, lockFile>>
    /\ UNCHANGED <<wua, post>>

\* deferredFuncs = append(deferredFuncs, func() {...}) and obtainLock returns
Register(a) ==
    /\ main[a] = "append"
    /\ deferredFuncs' = [deferredFuncs EXCEPT ![a] = Append(@, Cleanup)]
    /\ main' = [main EXCEPT ![a] = "run"]
    /\ UNCHANGED <<flocker, fOpen, lockDir, lockFile, flock>>
    /\ UNCHANGED <<wua, post>>

\* what running one registered cleanup does to the lock file
RunCleanup(a) ==
    /\ flock' = [n \in Inodes |-> IF flock[n] = a THEN 0 ELSE flock[n]]
    /\ fOpen' = [fOpen EXCEPT ![a] = 0]
    /\ lockFile' = 0

\* the agent stops and runs its deferred functions
Stop(a) ==
    /\ main[a] = "run"
    /\ IF deferredFuncs[a] # <<>>
       THEN RunCleanup(a)
       ELSE /\ flock' = [n \in Inodes |-> IF flock[n] = a THEN 0 ELSE flock[n]]
            /\ fOpen' = [fOpen EXCEPT ![a] = 0]
            /\ UNCHANGED lockFile
    /\ main' = [main EXCEPT ![a] = "off"]
    /\ flocker' = [flocker EXCEPT ![a] = "none"]
    /\ deferredFuncs' = [deferredFuncs EXCEPT ![a] = <<>>]
    /\ UNCHANGED lockDir
    /\ UNCHANGED <<wua, post>>

StartupNext ==
    \E a \in Agents :
        \/ StartAgent(a)
        \/ Mkdir(a)
        \/ OpenFile(a)
        \/ Go(a)
        \/ Flock(a)
        \/ Receive(a)
        \/ Timeout(a)
        \/ Register(a)
        \/ Stop(a)

StartupSpec == Init /\ [][StartupNext]_vars

\* obtainLock of a has returned normally
ObtainLockReturned(a) == main[a] = "run"

\* C25: obtainLock returns normally only with the exclusive lock on the file
\* it opened, received from the goroutine before the one-second timer was
\* taken, and it has then registered exactly one cleanup, the one that unlocks,
\* closes and removes the lock file; if the lock attempt fails, or the
\* select takes the timer, the process ends fatally: it registers nothing and
\* never runs the agent.
C25_RunsOnlyWithLock ==
    /\ [](\A a \in Agents :
            /\ main[a] \in {"append", "run"}
                => /\ fOpen[a] # 0 /\ flock[fOpen[a]] = a
                   /\ flocker[a] = "done"
            /\ ObtainLockReturned(a) <=> deferredFuncs[a] = <<Cleanup>>
            /\ ~ObtainLockReturned(a) => deferredFuncs[a] = <<>>
            /\ main[a] = "fatal" => (fOpen[a] = 0 /\ \A n \in Inodes : flock[n] # a))
    /\ [][\A a \in Agents :
            /\ (main[a] = "select" /\ main'[a] # "select")
                => /\ main'[a] \in {"append", "fatal"}
                   /\ main'[a] = "append" => (flocker[a] = "c <- nil" /\ flock[fOpen[a]] = a)
                   /\ flocker[a] # "c <- nil" => main'[a] = "fatal"
            /\ main[a] = "fatal" => main'[a] \in {"fatal", "Mkdir"}
            /\ main'[a] = "run" => main[a] \in {"run", "append"}
            /\ (main[a] = "run" /\ main'[a] = "off")
                => (fOpen'[a] = 0 /\ lockFile' = 0 /\ \A n \in Inodes : flock'[n] # a)]_vars

\* one process runs the agent with the lock and its cleanup registered while
\* the other has waited for the same file's lock and is about to end fatally
C25_Witness ==
    \E a, b \in Agents :
        /\ a # b
        /\ main[a] = "run" /\ flock[fOpen[a]] = a /\ deferredFuncs[a] = <<Cleanup>>
        /\ main[b] = "select" /\ flocker[b] = "Flock" /\ fOpen[b] = fOpen[a]
====
